---- MODULE Spec2Model ----
(***************************************************************************)
(* Model of the per-tick evaluation pipeline of bevy_enhanced_input:       *)
(* the per-schedule list of context instances, the two tick phases         *)
(* `update` and `apply`, the observers `register`, `unregister`,           *)
(* `deactivate` and `reset_action`, the derivation of lifecycle events     *)
(* from state transitions, and the combination of condition results.       *)
(***************************************************************************)
EXTENDS Integers, Sequences, FiniteSets, TLC

\* ---------------------------------------------------------------- bounds
MaxPriority == 1        \* context priorities range over 0..MaxPriority
MaxTime == 1            \* no tick runs once an active action's elapsed time reached this
MaxMockUpdates == 2     \* largest MockSpan::Updates(n) / Duration(n) inserted
MaxConds == 3           \* longest chain of conditions combined at one level
MaxHoldTime == 2        \* hold times, intervals and initial delays range over 1..MaxHoldTime
MaxDelta == 2           \* the clock advances by 0..MaxDelta between two evaluations
MaxEvaluations == 4     \* evaluations of one timed condition
MaxLimit == 2           \* Pulse::trigger_limit ranges over 0..MaxLimit
MaxCooldownEvaluations == 6     \* evaluations of one Cooldown condition
MaxChord == 2           \* a Chord lists at most this many actions
MaxSteps == 2           \* a Combo has at most this many steps

\* ------------------------------------------------------- the spawned world
\* Context entities and the actions they own, in spawn order:
\*   1: actions 1, 2      layered contexts, every action consumes its input
\*   2: action 3
\*   3: no action
\*   4: actions 4, 5      consume_input true, then false
\*   5: actions 6, 7      consume_input false, then true
\*   6: actions 8, 9      consume_input false, false
\*   7: actions 10, 11    action 10 has require_reset and does not consume
\*   8: actions 17, 12    action 17 has a Down that a key never reaches;
\*                        action 12 is a plain consuming action
\*   9: actions 13, 14    no conditions / an explicit Down with threshold 0
\*  10: actions 18, 19, 20  bound to K1, Ctrl+K1 and K1; 18 and 19 consume
\* Actions 15 and 16 belong to no context: their bindings are merged on
\* their own, with Accumulation::Cumulative and Accumulation::MaxAbs.
\* Actions 2, 15 and 16 output an f32, the others a bool.  Every action has
\* one binding (the entity with the action's number) to the key K1, except
\* actions 15 and 16, which have three bindings each, and actions 17 to 20,
\* whose bindings are the entities 21 to 24; binding 23 (of action 19) also
\* needs the modifier key Ctrl.
\*  11: actions 25, 26, 27  action 25 has a Chord over the actions 26 and
\*                        28, action 27 a Chord over action 26; the two
\*                        chord actions have no binding
\*  12: action 28
\*  13: action 29          action 29 has a Hold condition
\* Actions 25 to 29 do not consume their input; no action has the numbers
\* 21 to 24.
Contexts == 1..13
Actions == 1..29
Keys == {"K1"}
ModifierKeys == {"Ctrl"}
BindingIds == 1..29
SpawnActions ==
    [c \in Contexts |->
       CASE c = 1 -> <<1, 2>> [] c = 2 -> <<3>> [] c = 3 -> <<>>
         [] c = 4 -> <<4, 5>> [] c = 5 -> <<6, 7>> [] c = 6 -> <<8, 9>>
         [] c = 7 -> <<10, 11>> [] c = 8 -> <<17, 12>> [] c = 9 -> <<13, 14>>
         [] c = 10 -> <<18, 19, 20>> [] c = 11 -> <<25, 26, 27>>
         [] c = 12 -> <<28>> [] c = 13 -> <<29>>]
ActionDim == [a \in Actions |-> IF a \in {2, 15, 16} THEN "Axis1D" ELSE "Bool"]
Bindings ==
    [a \in Actions |->
       CASE a = 15 -> <<15, 17, 18>> [] a = 16 -> <<16, 19, 20>> [] a = 17 -> <<21>>
         [] a = 18 -> <<22>> [] a = 19 -> <<23>> [] a = 20 -> <<24>>
         [] a \in {21, 22, 23, 24, 25, 27} -> <<>>
         [] OTHER -> <<a>>]
Binding ==
    [b \in BindingIds |-> [key |-> "K1", mod_keys |-> IF b = 23 THEN {"Ctrl"} ELSE {}]]
\* ActionSettings of the spawned actions (never changed after spawn)
Settings ==
    [a \in Actions |->
       [accumulation |-> IF a = 16 THEN "MaxAbs" ELSE "Cumulative",
        require_reset |-> a = 10,
        consume_input |-> a \notin {5, 6, 8, 9, 10, 13, 14, 20} \cup (25..29)]]
\* The layered scenario uses contexts 1 to 3.
LayeredContexts == {1, 2, 3}
\* The override scenario uses context 1 alone: action 1 may receive an
\* ActionMock, action 2 the ExternallyMocked marker.
OverrideContexts == {1}
Mockable == {1}
ExternallyMockable == {2}

\* ------------------------------------------------------------ ActionState
ActionStates == {"None", "Ongoing", "Fired"}

\* derive(PartialOrd, Ord): None < Ongoing < Fired
StateRank(s) == CASE s = "None" -> 0 [] s = "Ongoing" -> 1 [] s = "Fired" -> 2

MaxState(s, t) == IF StateRank(s) >= StateRank(t) THEN s ELSE t

MinState(s, t) == IF StateRank(s) <= StateRank(t) THEN s ELSE t

\* ----------------------------------------------------------- ActionEvents
EventKinds == {"Start", "Ongoing", "Fire", "Cancel", "Complete"}

\* bit order of the flags, which is the order `iter_names` yields them in
EventOrder == <<"Start", "Ongoing", "Fire", "Cancel", "Complete">>

\* faulty variant: derives the events from the new state alone
ActionEventsNew_NoPrevious(previous, current) ==
    CASE current = "None" -> {}
      [] current = "Ongoing" -> {"Start", "Ongoing"}
      [] current = "Fired" -> {"Start", "Fire"}

ActionEventsNew(previous, current) ==
    CASE previous = "None" /\ current = "None" -> {}
      [] previous = "None" /\ current = "Ongoing" -> {"Start", "Ongoing"}
      [] previous = "None" /\ current = "Fired" -> {"Start", "Fire"}
      [] previous = "Ongoing" /\ current = "None" -> {"Cancel"}
      [] previous = "Ongoing" /\ current = "Ongoing" -> {"Ongoing"}
      [] previous = "Ongoing" /\ current = "Fired" -> {"Fire"}
      [] previous = "Fired" /\ current = "None" -> {"Complete"}
      [] previous = "Fired" /\ current = "Ongoing" -> {"Ongoing"}
      [] previous = "Fired" /\ current = "Fired" -> {"Fire"}

\* ------------------------------------------------------------ ActionValue
Dims == {"Bool", "Axis1D", "Axis2D", "Axis3D"}

Val(d, x, y, z) == [dim |-> d, x |-> x, y |-> y, z |-> z]

Zero(d) == Val(d, 0, 0, 0)

AsBool(v) == v.x # 0 \/ v.y # 0 \/ v.z # 0

\* projects/extends between dimensions: zero-fill missing axes, drop extra
\* ones; a boolean is 1 when the value is non-zero
Convert(v, d) ==
    CASE d = "Bool" -> Val(d, IF AsBool(v) THEN 1 ELSE 0, 0, 0)
      [] d = "Axis1D" -> Val(d, v.x, 0, 0)
      [] d = "Axis2D" -> Val(d, v.x, v.y, 0)
      [] d = "Axis3D" -> Val(d, v.x, v.y, v.z)

Abs(n) == IF n < 0 THEN -n ELSE n

\* ------------------------------------------------------------- ActionTime
NoTime == [elapsed_secs |-> 0, fired_secs |-> 0]

\* every tick advances the injected clock by one unit
Delta == 1

ActionTimeUpdate(t, delta_secs, st) ==
    CASE st = "None" -> NoTime
      [] st = "Ongoing" -> [elapsed_secs |-> t.elapsed_secs + delta_secs, fired_secs |-> 0]
      [] st = "Fired" -> [elapsed_secs |-> t.elapsed_secs + delta_secs,
                          fired_secs |-> t.fired_secs + delta_secs]

\* ------------------------------------------------------------ InputReader
\* value of a binding's input: zero when the input was consumed or is
\* pending a reset, otherwise the raw device sample (a key reads as a bool)
ReaderValue(ks, cons, pend, b) ==
    IF Binding[b].key \in cons \/ Binding[b].key \in pend
       \/ Binding[b].mod_keys \cap cons # {}
    THEN Zero("Bool")
    ELSE Val("Bool", IF Binding[b].key \in ks /\ Binding[b].mod_keys \subseteq ks
                     THEN 1 ELSE 0, 0, 0)

\* EnhancedInputSystems::Prepare: an input stays ignored while it is held
UpdatePending(pend, ks) == pend \cap ks

ReaderConsume(cons, b) == cons \cup {Binding[b].key} \cup Binding[b].mod_keys

ModKeysCount(b) == Cardinality(Binding[b].mod_keys)

\* --------------------------------------------------------- TriggerTracker
ConditionKinds == {"Explicit", "Implicit", "Blocker"}

TrackerNew(v) ==
    [value |-> v, found |-> FALSE, max |-> "None",
     implicit_failed |-> FALSE, blocked |-> FALSE]

\* one condition of kind `kind` evaluated to `st`
\* faulty variant: only the last blocker decides
TrackerApplyCondition_LastBlocker(t, kind, st) ==
    CASE kind = "Explicit" -> [t EXCEPT !.found = TRUE, !.max = MaxState(@, st)]
      [] kind = "Implicit" -> [t EXCEPT !.found = TRUE, !.max = MaxState(@, st),
                                        !.implicit_failed = @ \/ st # "Fired"]
      [] kind = "Blocker" -> [t EXCEPT !.blocked = (st = "None")]

TrackerApplyCondition(t, kind, st) ==
    CASE kind = "Explicit" -> [t EXCEPT !.found = TRUE, !.max = MaxState(@, st)]
      [] kind = "Implicit" -> [t EXCEPT !.found = TRUE, !.max = MaxState(@, st),
                                        !.implicit_failed = @ \/ st # "Fired"]
      [] kind = "Blocker" -> [t EXCEPT !.blocked = @ \/ st = "None"]

\* faulty variant: implicit conditions never cap the result
TrackerState_NoCap(t) ==
    IF t.blocked THEN "None"
    ELSE IF ~t.found THEN (IF AsBool(t.value) THEN "Fired" ELSE "None")
    ELSE t.max

TrackerState(t) ==
    IF t.blocked THEN "None"
    ELSE IF ~t.found THEN (IF AsBool(t.value) THEN "Fired" ELSE "None")
    ELSE IF t.implicit_failed THEN MinState(t.max, "Ongoing")
    ELSE t.max

\* is the magnitude of the value at least the threshold
IsActuated(v, actuation) == v.x * v.x + v.y * v.y + v.z * v.z >= actuation * actuation

\* the Down condition with the given actuation threshold
Down(actuation) == [type |-> "Down", kind |-> "Explicit", actuation |-> actuation]

DownEvaluate(cond, v) == IF IsActuated(v, cond.actuation) THEN "Fired" ELSE "None"

\* the conditions attached to the spawned actions
Conditions ==
    [a \in Actions |-> CASE a = 14 -> <<Down(0)>> [] a = 17 -> <<Down(2)>> [] OTHER -> <<>>]

RECURSIVE TrackerApplyConditions(_, _, _)
\* evaluates the conditions from the i-th on with the tracker's value
TrackerApplyConditions(t, conds, i) ==
    IF i > Len(conds) THEN t
    ELSE TrackerApplyConditions(
           TrackerApplyCondition(t, conds[i].kind, DownEvaluate(conds[i], t.value)),
           conds, i + 1)

\* replaces the tracker by `other`, keeping the dimension of the value
TrackerOverwrite(t, other) == [other EXCEPT !.value = Convert(other.value, t.value.dim)]

\* value with the greatest magnitude per axis
MaxAbs(a, b) == IF Abs(b) > Abs(a) THEN b ELSE a

Accumulate(v, w, accumulation) ==
    IF accumulation = "MaxAbs"
    THEN Val("Axis3D", MaxAbs(v.x, w.x), MaxAbs(v.y, w.y), MaxAbs(v.z, w.z))
    ELSE Val("Axis3D", v.x + w.x, v.y + w.y, v.z + w.z)

\* merges two trackers of equal state, keeping the dimension of the value
TrackerCombine(t, other, accumulation) ==
    [value |-> Convert(Accumulate(t.value, other.value, accumulation), t.value.dim),
     found |-> t.found \/ other.found,
     max |-> MaxState(t.max, other.max),
     implicit_failed |-> t.implicit_failed \/ other.implicit_failed,
     blocked |-> t.blocked \/ other.blocked]

\* ------------------------------------------------- condition components
\* Inputs and thresholds of the timed conditions are counted in halves, so
\* that the default threshold 0.5 is the integer 1; time is counted in whole
\* units of the clock.
DEFAULT_ACTUATION == 1

\* the Timer component the conditions own (bevy's Timer, never paused)
TimerFromSeconds(duration, mode) ==
    [mode |-> mode, duration |-> duration, elapsed |-> 0, finished |-> FALSE,
     times_finished_this_tick |-> 0]

\* Timer::tick: a finished non-repeating timer stays as it is; otherwise the
\* elapsed time grows by delta, a non-repeating timer stops at its duration
\* and a repeating one wraps around
TimerTick(t, delta) ==
    IF t.mode # "Repeating" /\ t.finished
    THEN [t EXCEPT !.times_finished_this_tick = 0]
    ELSE LET elapsed == t.elapsed + delta
         IN  IF elapsed >= t.duration
             THEN (IF t.mode = "Repeating"
                   THEN [t EXCEPT !.finished = TRUE,
                                  !.times_finished_this_tick = elapsed \div t.duration,
                                  !.elapsed = elapsed % t.duration]
                   ELSE [t EXCEPT !.finished = TRUE,
                                  !.times_finished_this_tick = 1,
                                  !.elapsed = t.duration])
             ELSE [t EXCEPT !.finished = FALSE,
                            !.times_finished_this_tick = 0,
                            !.elapsed = elapsed]

TimerReset(t) ==
    [t EXCEPT !.elapsed = 0, !.finished = FALSE, !.times_finished_this_tick = 0]

TimerSetDuration(t, duration) == [t EXCEPT !.duration = duration]

TimerJustFinished(t) == t.times_finished_this_tick > 0

\* Hold::new(hold_time).one_shot(one_shot)
Hold(hold_time, one_shot) ==
    [kind |-> "Hold", one_shot |-> one_shot, actuation |-> DEFAULT_ACTUATION,
     timer |-> TimerFromSeconds(hold_time, "Once")]

\* the mutation of C28: the timer keeps running over a release
HoldEvaluate_NoReset(cond, delta, v) ==
    LET actuated == IsActuated(v, cond.actuation)
        timer == IF actuated THEN TimerTick(cond.timer, delta) ELSE cond.timer
    IN  [condition |-> [cond EXCEPT !.timer = timer],
         state |-> IF timer.finished
                   THEN (IF TimerJustFinished(timer) \/ ~cond.one_shot
                         THEN "Fired" ELSE "None")
                   ELSE IF actuated THEN "Ongoing" ELSE "None"]

\* Hold::evaluate: the condition after the evaluation and the returned state
HoldEvaluate(cond, delta, v) ==
    LET actuated == IsActuated(v, cond.actuation)
        timer == IF actuated THEN TimerTick(cond.timer, delta)
                 ELSE TimerReset(cond.timer)
    IN  [condition |-> [cond EXCEPT !.timer = timer],
         state |-> IF timer.finished
                   THEN (IF TimerJustFinished(timer) \/ ~cond.one_shot
                         THEN "Fired" ELSE "None")
                   ELSE IF actuated THEN "Ongoing" ELSE "None"]

\* conditions on other actions
\* Chord::new(actions)
Chord(chord_actions) == [kind |-> "Chord", actions |-> chord_actions]

\* the mutation of C33: the result is not capped when an action is not Fired
ChordCap_None(all_fired, max_state) == max_state

\* the end of Chord::evaluate: capped at Ongoing unless all actions fired
ChordCap(all_fired, max_state) ==
    IF ~all_fired THEN MinState(max_state, "Ongoing") ELSE max_state

RECURSIVE ChordFold(_, _, _, _, _)
\* the loop of Chord::evaluate from the i-th action on; an entity that is not
\* a valid action is skipped
ChordFold(chord_actions, world, i, max_state, all_fired) ==
    IF i > Len(chord_actions) THEN ChordCap(all_fired, max_state)
    ELSE LET action == chord_actions[i]
         IN  IF action \notin DOMAIN world
             THEN ChordFold(chord_actions, world, i + 1, max_state, all_fired)
             ELSE ChordFold(chord_actions, world, i + 1,
                            IF StateRank(world[action].state) > StateRank(max_state)
                            THEN world[action].state ELSE max_state,
                            all_fired /\ world[action].state = "Fired")

\* Chord::evaluate
ChordEvaluate(cond, world) == ChordFold(cond.actions, world, 1, "None", TRUE)

\* InputCondition::kind of a condition component
ComponentKind(cond) == IF cond.kind = "Chord" THEN "Implicit" ELSE "Explicit"

\* the condition components the actions 25, 27 and 29 are spawned with
Components ==
    [a \in {25, 27, 29} |->
       CASE a = 25 -> Chord(<<26, 28>>) [] a = 27 -> Chord(<<26>>)
         [] a = 29 -> Hold(2, FALSE)]

\* the read-only view of the actions that a condition is evaluated with:
\* the states as they are when the condition is evaluated
\* faulty variant: the states are the ones the tick started with
ActionsData_Snapshot(st, before) == [e \in Actions |-> [state |-> before[e]]]

ActionsData(st, before) == [e \in Actions |-> [state |-> st.state[e]]]

\* evaluate() of the condition component of an action: the component and
\* the state it returns
ComponentEvaluate(cond, st, before, delta, v) ==
    CASE cond.kind = "Hold" -> HoldEvaluate(cond, delta, v)
      [] cond.kind = "Chord" ->
           [condition |-> cond, state |-> ChordEvaluate(cond, ActionsData(st, before))]

\* ------------------------------------------------------------- ActionMock
NoMock == [enabled |-> FALSE, state |-> "None", value |-> Zero("Bool"),
           span |-> [kind |-> "Manual", n |-> 0]]

Updates(n) == [kind |-> "Updates", n |-> n]

Duration(n) == [kind |-> "Duration", n |-> n]

Manual == [kind |-> "Manual", n |-> 0]

SaturatingSub(n, m) == IF n > m THEN n - m ELSE 0

\* one evaluation of an enabled mock: the remaining span shrinks, the mock's
\* state and value are used, and the mock is disabled when the span expired
\* faulty variant: an expiring mock is not applied any more
MockEvaluate_SkipLast(m, delta) ==
    LET span == CASE m.span.kind = "Updates" -> Updates(SaturatingSub(m.span.n, 1))
                  [] m.span.kind = "Duration" -> Duration(SaturatingSub(m.span.n, delta))
                  [] m.span.kind = "Manual" -> m.span
        expired == span.kind # "Manual" /\ span.n = 0
    IN [mock |-> [m EXCEPT !.span = span, !.enabled = ~expired],
        state |-> IF expired THEN "None" ELSE m.state, value |-> m.value]

MockEvaluate(m, delta) ==
    LET span == CASE m.span.kind = "Updates" -> Updates(SaturatingSub(m.span.n, 1))
                  [] m.span.kind = "Duration" -> Duration(SaturatingSub(m.span.n, delta))
                  [] m.span.kind = "Manual" -> m.span
        expired == span.kind # "Manual" /\ span.n = 0
    IN [mock |-> [m EXCEPT !.span = span, !.enabled = ~expired],
        state |-> m.state, value |-> m.value]

\* ------------------------------------------------------- ContextInstances
Instance(entity, priority) == [entity |-> entity, priority |-> priority]

InsertAt(s, i, e) == SubSeq(s, 1, i - 1) \o <<e>> \o SubSeq(s, i, Len(s))

RemoveAt(s, i) == SubSeq(s, 1, i - 1) \o SubSeq(s, i + 1, Len(s))

\* results `binary_search_by_key(&Reverse(priority), ..)` may give on a list
\* sorted by descending priority, as 1-based insertion positions: the
\* position of any instance of equal priority, else the only position that
\* keeps the order
\* faulty variant: the position after the instances of equal priority
SearchPositions_AfterEqual(insts, priority) ==
    {Cardinality({i \in 1..Len(insts) : insts[i].priority >= priority}) + 1}

SearchPositions(insts, priority) ==
    LET equal == {i \in 1..Len(insts) : insts[i].priority = priority}
    IN IF equal # {} THEN equal
       ELSE {Cardinality({i \in 1..Len(insts) : insts[i].priority > priority}) + 1}

\* faulty variant: the new instance is put in front
InstancesAdd_Front(insts, entity, priority, index) ==
    InsertAt(insts, 1, Instance(entity, priority))

InstancesAdd(insts, entity, priority, index) ==
    InsertAt(insts, index, Instance(entity, priority))

InstancesRemove(insts, entity) ==
    RemoveAt(insts, CHOOSE i \in 1..Len(insts) : insts[i].entity = entity)

Registered(insts) == {insts[i].entity : i \in 1..Len(insts)}

\* ------------------------------------------------------------------ state
VARIABLES
    keys,               \* device sample: the keys that are pressed
    instances,          \* ContextInstances<S>: sequence of [entity, priority]
    active,             \* ContextActivity<C> of every context entity
    actions,            \* Actions<C> of every context entity: sequence of actions
    state,              \* ActionState of every action
    value,              \* ActionValue of every action
    events,             \* ActionEvents of every action
    time,               \* ActionTime of every action
    output,             \* Action<A>: the public value slot of every action
    mock,               \* ActionMock of every action
    externally_mocked,  \* actions carrying the ExternallyMocked marker
    first_activation,   \* FirstActivation of every binding
    consumed,           \* ConsumedInputs of the schedule
    pending,            \* PendingBindings: inputs ignored until released
    phase,              \* "idle" between ticks, "updated" between update and apply
    sink,               \* notifications triggered since the current tick began
    tick_end_state,     \* ActionState of every action when the last tick ended
    tracker,            \* a TriggerTracker whose conditions are being applied
    chain,              \* the conditions applied to it so far: [kind, state]
    merged,             \* an action's tracker while its bindings are merged
    results,            \* the binding trackers merged into it so far
    held,               \* history of the inputs of require_reset bindings
    condition,          \* a timed condition component: Hold, HoldAndRelease or Pulse
    history             \* what its evaluations were given and what they returned

vars == <<keys, instances, active, actions, state, value, events, time, output,
          mock, externally_mocked, first_activation, consumed, pending, phase,
          sink, tick_end_state, tracker, chain, merged, results, held,
          condition, history>>

\* ------------------------------------------------ trigger (action/fns.rs)
RECURSIVE TriggerFrom(_, _, _, _, _)
TriggerFrom(i, context, action, st, evs) ==
    IF i > Len(EventOrder) THEN <<>>
    ELSE (IF EventOrder[i] \in evs
          THEN <<[event |-> EventOrder[i], context |-> context,
                  action |-> action, state |-> st]>>
          ELSE <<>>) \o TriggerFrom(i + 1, context, action, st, evs)

\* faulty variant: Start is delivered after the other events
Trigger_StartLast(context, action, st, evs) ==
    TriggerFrom(1, context, action, st, evs \ {"Start"})
      \o TriggerFrom(1, context, action, st, evs \cap {"Start"})

\* faulty variant: terminal events are not delivered
Trigger_DropTerminal(context, action, st, evs) ==
    TriggerFrom(1, context, action, st, evs \ {"Cancel", "Complete"})

Trigger(context, action, st, evs) == TriggerFrom(1, context, action, st, evs)

\* ------------------------------------ update: one action from its bindings
\* inputs marked as consumed once the action is resolved
\* faulty variant: nothing is consumed
ConsumeBuffer_Never(cons, consume_input, new_state, buffer) == cons

\* faulty variant: the state of the action is not looked at
ConsumeBuffer_Always(cons, consume_input, new_state, buffer) ==
    IF consume_input
    THEN cons \cup UNION {ReaderConsume({}, buffer[i]) : i \in 1..Len(buffer)}
    ELSE cons

ConsumeBuffer(cons, consume_input, new_state, buffer) ==
    IF consume_input /\ new_state # "None"
    THEN cons \cup UNION {ReaderConsume({}, buffer[i]) : i \in 1..Len(buffer)}
    ELSE cons

\* merges the result of one binding into the action's tracker
\* faulty variant: a binding of a higher state is combined, not taken alone
MergeBinding_AlwaysCombine(acc, a, b, current) ==
    LET current_state == TrackerState(current)
        tracker_state == TrackerState(acc.tracker)
    IN IF current_state = "None" THEN acc
       ELSE IF StateRank(current_state) < StateRank(tracker_state) THEN acc
       ELSE [acc EXCEPT
               !.tracker = TrackerCombine(@, current, Settings[a].accumulation),
               !.buffer = IF Settings[a].consume_input THEN Append(@, b) ELSE @]

MergeBinding(acc, a, b, current) ==
    LET current_state == TrackerState(current)
        conditionedstate == TrackerState(acc.tracker)
    IN IF current_state = "None" THEN acc
       ELSE IF StateRank(current_state) < StateRank(conditionedstate) THEN acc
       ELSE IF current_state = conditionedstate
       THEN [acc EXCEPT
               !.tracker = TrackerCombine(@, current, Settings[a].accumulation),
               !.buffer = IF Settings[a].consume_input THEN Append(@, b) ELSE @]
       ELSE [acc EXCEPT
               !.tracker = TrackerOverwrite(@, current),
               !.buffer = IF Settings[a].consume_input THEN <<b>> ELSE @]

\* the loop over the bindings of action `a`; acc carries the tracker, the
\* consume buffer, the consumed inputs, the first-activation latches and the
\* values read
\* faulty variant: require_reset is not looked at
RECURSIVE EvalBindings_NoLatch(_, _, _, _)
EvalBindings_NoLatch(a, bs, i, acc) ==
    IF i > Len(bs) THEN acc
    ELSE
      LET b == bs[i]
          new_value == ReaderValue(keys, acc.consumed, UpdatePending(pending, keys), b)
          seen == [acc EXCEPT !.reads = Append(@, [binding |-> b, value |-> new_value])]
      IN EvalBindings_NoLatch(a, bs, i + 1, MergeBinding(seen, a, b, TrackerNew(new_value)))

RECURSIVE EvalBindings(_, _, _, _)
EvalBindings(a, bs, i, acc) ==
    IF i > Len(bs) THEN acc
    ELSE
      LET b == bs[i]
          new_value == ReaderValue(keys, acc.consumed, UpdatePending(pending, keys), b)
          latched == Settings[a].require_reset /\ acc.first_activation[b]
          seen == [acc EXCEPT !.reads = Append(@, [binding |-> b, value |-> new_value])]
      IN IF latched /\ AsBool(new_value)
         THEN EvalBindings(a, bs, i + 1,
                           [seen EXCEPT !.consumed = ReaderConsume(@, b)])
         ELSE EvalBindings(a, bs, i + 1,
                MergeBinding(
                  [seen EXCEPT !.first_activation =
                                  IF latched THEN [@ EXCEPT ![b] = FALSE] ELSE @],
                  a, b, TrackerNew(new_value)))

\* evaluation of action `a` from input: its new state and value, the
\* consumed inputs and latches afterwards, and the values it read
\* faulty variant: the inputs of a non-None action are consumed whatever its
\* consume_input setting
EvalFromInput_ConsumeAlways(a, st) ==
    LET dim == st.value[a].dim
        acc == EvalBindings(a, Bindings[a], 1,
                 [tracker |-> TrackerNew(Zero(dim)), buffer |-> <<>>,
                  consumed |-> st.consumed,
                  first_activation |-> st.first_activation, reads |-> <<>>])
        listed == TrackerApplyConditions(acc.tracker, Conditions[a], 1)
        stateful == a \in DOMAIN st.conditions
        evaluated == ComponentEvaluate(st.conditions[a], st, state, Delta, listed.value)
        conditioned == IF stateful
                       THEN TrackerApplyCondition(listed, ComponentKind(st.conditions[a]),
                                                  evaluated.state)
                       ELSE listed
        new_state == TrackerState(conditioned)
    IN [state |-> new_state,
        value |-> Convert(conditioned.value, dim),
        conditions |-> IF stateful
                       THEN [st.conditions EXCEPT ![a] = evaluated.condition]
                       ELSE st.conditions,
        consumed |-> ConsumeBuffer(acc.consumed, TRUE, new_state, Bindings[a]),
        first_activation |-> acc.first_activation,
        reads |-> acc.reads]

EvalFromInput(a, st) ==
    LET dim == st.value[a].dim
        acc == EvalBindings(a, Bindings[a], 1,
                 [tracker |-> TrackerNew(Zero(dim)), buffer |-> <<>>,
                  consumed |-> st.consumed,
                  first_activation |-> st.first_activation, reads |-> <<>>])
        listed == TrackerApplyConditions(acc.tracker, Conditions[a], 1)
        stateful == a \in DOMAIN st.conditions
        evaluated == ComponentEvaluate(st.conditions[a], st, state, Delta, listed.value)
        conditioned == IF stateful
                       THEN TrackerApplyCondition(listed, ComponentKind(st.conditions[a]),
                                                  evaluated.state)
                       ELSE listed
        new_state == TrackerState(conditioned)
    IN [state |-> new_state,
        value |-> Convert(conditioned.value, dim),
        conditions |-> IF stateful
                       THEN [st.conditions EXCEPT ![a] = evaluated.condition]
                       ELSE st.conditions,
        consumed |-> ConsumeBuffer(acc.consumed, Settings[a].consume_input,
                                   new_state, acc.buffer),
        first_activation |-> acc.first_activation,
        reads |-> acc.reads]

\* the new state and value of an action of an inactive context
InactiveResult_KeepState(st, a) == [state |-> st.state[a], value |-> Zero(st.value[a].dim)]

InactiveResult(st, a) == [state |-> "None", value |-> Zero(st.value[a].dim)]

\* writes the evaluated state and value of action `a`
\* faulty variant: the timers follow the new state
Commit_TimeOfNewState(st, a, new_state, new_value) ==
    [st EXCEPT !.time[a] = ActionTimeUpdate(@, Delta, new_state),
               !.events[a] = ActionEventsNew(st.state[a], new_state),
               !.state[a] = new_state,
               !.value[a] = new_value]

Commit(st, a, new_state, new_value) ==
    [st EXCEPT !.time[a] = ActionTimeUpdate(@, Delta, st.state[a]),
               !.events[a] = ActionEventsNew(st.state[a], new_state),
               !.state[a] = new_state,
               !.value[a] = new_value]

\* the body of the loop over the actions of one context, from the world st0
\* that the actions before it have left
\* faulty variant: the value of a mock is converted to the action's output
UpdateAction_ConvertMock(context_active, a, st0) ==
    CHOOSE next \in {
          IF ~context_active
          THEN LET r == InactiveResult(st, a)
               IN [Commit(st, a, r.state, r.value) EXCEPT
                     !.trace = Append(@, [action |-> a, path |-> "inactive", reads |-> <<>>,
                                          consumed |-> st.consumed])]
          ELSE IF st.mock[a].enabled
          THEN LET r == MockEvaluate(st.mock[a], Delta)
               IN [Commit(st, a, r.state, Convert(r.value, ActionDim[a])) EXCEPT
                     !.mock[a] = r.mock,
                     !.trace = Append(@, [action |-> a, path |-> "mock", reads |-> <<>>,
                                          consumed |-> st.consumed])]
          ELSE LET r == EvalFromInput(a, st)
               IN [Commit(st, a, r.state, r.value) EXCEPT
                     !.consumed = r.consumed,
                     !.first_activation = r.first_activation,
                     !.conditions = r.conditions,
                     !.trace = Append(@, [action |-> a, path |-> "input", reads |-> r.reads,
                                          consumed |-> r.consumed])]
      : st \in {st0}} : TRUE

\* faulty variant: the mock and the condition of an action of an inactive
\* context are evaluated and its latches released, only the result is dropped
UpdateAction_EvaluateInactive(context_active, a, st0) ==
    CHOOSE next \in {
          IF st.mock[a].enabled
          THEN LET r == MockEvaluate(st.mock[a], Delta)
                   shown == IF context_active THEN r ELSE InactiveResult(st, a)
               IN [Commit(st, a, shown.state, shown.value) EXCEPT
                     !.mock[a] = r.mock,
                     !.trace = Append(@, [action |-> a,
                                          path |-> IF context_active THEN "mock"
                                                   ELSE "inactive",
                                          reads |-> <<>>, consumed |-> st.consumed])]
          ELSE LET r == EvalFromInput(a, st)
                   shown == IF context_active THEN r ELSE InactiveResult(st, a)
               IN [Commit(st, a, shown.state, shown.value) EXCEPT
                     !.consumed = IF context_active THEN r.consumed ELSE @,
                     !.first_activation = r.first_activation,
                     !.conditions = r.conditions,
                     !.trace = Append(@, [action |-> a,
                                          path |-> IF context_active THEN "input"
                                                   ELSE "inactive",
                                          reads |-> IF context_active THEN r.reads
                                                    ELSE <<>>,
                                          consumed |-> IF context_active THEN r.consumed
                                                       ELSE st.consumed])]
      : st \in {st0}} : TRUE

UpdateAction(context_active, a, st0) ==
    CHOOSE next \in {
          IF ~context_active
          THEN LET r == InactiveResult(st, a)
               IN [Commit(st, a, r.state, r.value) EXCEPT
                     !.trace = Append(@, [action |-> a, path |-> "inactive", reads |-> <<>>,
                                          consumed |-> st.consumed])]
          ELSE IF st.mock[a].enabled
          THEN LET r == MockEvaluate(st.mock[a], Delta)
               IN [Commit(st, a, r.state, r.value) EXCEPT
                     !.mock[a] = r.mock,
                     !.trace = Append(@, [action |-> a, path |-> "mock", reads |-> <<>>,
                                          consumed |-> st.consumed])]
          ELSE LET r == EvalFromInput(a, st)
               IN [Commit(st, a, r.state, r.value) EXCEPT
                     !.consumed = r.consumed,
                     !.first_activation = r.first_activation,
                     !.conditions = r.conditions,
                     !.trace = Append(@, [action |-> a, path |-> "input", reads |-> r.reads,
                                          consumed |-> r.consumed])]
      : st \in {st0}} : TRUE

RECURSIVE UpdateActions_EvaluateAll(_, _, _, _)
\* faulty variant: the query does not filter out ExternallyMocked
UpdateActions_EvaluateAll(context_active, as, i, st) ==
    IF i > Len(as) THEN st
    ELSE UpdateActions_EvaluateAll(context_active, as, i + 1,
           UpdateAction(context_active, as[i], st))

RECURSIVE UpdateActions(_, _, _, _)
UpdateActions(context_active, as, i, st) ==
    IF i > Len(as) THEN st
    ELSE UpdateActions(context_active, as, i + 1,
           IF as[i] \in externally_mocked THEN st
           ELSE UpdateAction(context_active, as[i], st))

\* sort key of an action: the largest number of modifier keys over its
\* bindings, 0 for an action the query does not match
ModsCount(a) ==
    IF a \in externally_mocked THEN 0
    ELSE LET counts == {ModKeysCount(Bindings[a][i]) : i \in 1..Len(Bindings[a])}
         IN IF counts = {} THEN 0 ELSE CHOOSE n \in counts : \A m \in counts : m <= n

\* stable sort by descending key
\* faulty variant: the actions are left in spawn order
SortByModsCount_None(as) == as

RECURSIVE SortByModsCount(_)
SortByModsCount(as) ==
    IF Len(as) <= 1 THEN as
    ELSE LET top == CHOOSE i \in 1..Len(as) :
                      /\ \A j \in 1..Len(as) : ModsCount(as[j]) <= ModsCount(as[i])
                      /\ \A j \in 1..(i - 1) : ModsCount(as[j]) < ModsCount(as[i])
         IN <<as[top]>> \o SortByModsCount(RemoveAt(as, top))

RECURSIVE UpdateInstances(_, _)
UpdateInstances(i, st) ==
    IF i > Len(instances) THEN st
    ELSE LET c == instances[i].entity
             sorted == SortByModsCount(st.actions[c])
         IN UpdateInstances(i + 1,
              UpdateActions(active[c], sorted, 1, [st EXCEPT !.actions[c] = sorted]))

\* reader.clear_consumed at the start of `update`
\* faulty variant: the inputs consumed in the previous tick are kept
ClearConsumed_Keep(cons) == cons

ClearConsumed(cons) == {}

\* the whole of `update`, started from the current state
UpdateResult ==
    UpdateInstances(1,
      [actions |-> actions, state |-> state, value |-> value, events |-> events,
       time |-> time, mock |-> mock, first_activation |-> first_activation,
       conditions |-> IF condition.kind = "Components" THEN condition.of ELSE <<>>,
       consumed |-> ClearConsumed(consumed), trace |-> <<>>])

\* ------------------------------------------------------------------ apply
RECURSIVE ApplyActions(_, _, _)
ApplyActions(c, as, i) ==
    IF i > Len(as) THEN <<>>
    ELSE Trigger(c, as[i], state[as[i]], events[as[i]]) \o ApplyActions(c, as, i + 1)

RECURSIVE ApplyInstances(_)
ApplyInstances(i) ==
    IF i > Len(instances) THEN <<>>
    ELSE ApplyActions(instances[i].entity, actions[instances[i].entity], 1)
           \o ApplyInstances(i + 1)

\* the actions `apply` visits
Applied == UNION {{actions[c][i] : i \in 1..Len(actions[c])} : c \in Registered(instances)}

\* ------------------------------------------------------------------- Init
\* ------------------------------------------------- history of held inputs
\* the bindings of the actions with require_reset
ResetBindings ==
    {b \in BindingIds : \E a \in Actions : \E i \in 1..Len(Bindings[a]) :
                            Settings[a].require_reset /\ Bindings[a][i] = b}

\* first: "held" while the input has been pressed without interruption since
\*   before the binding was first evaluated ("unseen" before that);
\* reactivated: "held" while the input has been pressed without interruption
\*   since its context last became active and the binding has read it as
\*   active on every tick since
NotHeld == [first |-> "unseen", reactivated |-> "free"]

HeldOnRelease(h, k) ==
    [b \in ResetBindings |->
       IF Binding[b].key = k
       THEN [first |-> IF h[b].first = "held" THEN "free" ELSE h[b].first,
             reactivated |-> "free"]
       ELSE h[b]]

HeldOnActivate(h, as, ks) ==
    [b \in ResetBindings |->
       IF \E i \in 1..Len(as) : \E j \in 1..Len(Bindings[as[i]]) : Bindings[as[i]][j] = b
       THEN [h[b] EXCEPT !.reactivated = IF Binding[b].key \in ks THEN "held" ELSE "free"]
       ELSE h[b]]

HeldOnUpdate(h, trace, ks) ==
    [b \in ResetBindings |->
       LET read == {<<i, j>> \in (1..Len(trace)) \X (1..3) :
                      j <= Len(trace[i].reads) /\ trace[i].reads[j].binding = b}
       IN IF read = {} THEN h[b]
          ELSE [first |-> IF h[b].first = "unseen"
                          THEN (IF Binding[b].key \in ks THEN "held" ELSE "free")
                          ELSE h[b].first,
                reactivated |-> IF \E p \in read : ~AsBool(trace[p[1]].reads[p[2]].value)
                                THEN "free" ELSE h[b].reactivated]]

InitWorld ==
    /\ held = [b \in ResetBindings |-> NotHeld]
    /\ keys = {}
    /\ instances = <<>>
    /\ active = [c \in Contexts |-> TRUE]
    /\ actions = SpawnActions
    /\ state = [a \in Actions |-> "None"]
    /\ value = [a \in Actions |-> Zero(ActionDim[a])]
    /\ events = [a \in Actions |-> {}]
    /\ time = [a \in Actions |-> NoTime]
    /\ output = [a \in Actions |-> Zero(ActionDim[a])]
    /\ mock = [a \in Actions |-> NoMock]
    /\ externally_mocked = {}
    /\ first_activation = [b \in BindingIds |-> TRUE]
    /\ consumed = {}
    /\ pending = {}
    /\ phase = "idle"
    /\ sink = <<>>
    /\ tick_end_state = [a \in Actions |-> "None"]

\* no timed condition is being evaluated
NoCondition == [kind |-> "None"]

NoHistory ==
    [count |-> 0, actuated |-> FALSE, preceded |-> FALSE, result |-> "None",
     runs |-> 0, held_time |-> 0, fired |-> 0,
     ended_time |-> 0, ended_held |-> 0, ended_fired |-> 0]

Init ==
    /\ InitWorld
    /\ condition = NoCondition
    /\ history = NoHistory
    /\ tracker = TrackerNew(Zero("Bool"))
    /\ chain = <<>>
    /\ merged = <<>>
    /\ results = <<>>

\* -------------------------------------------------- the injected device
Press(k) ==
    /\ phase = "idle"
    /\ k \notin keys
    /\ keys' = keys \cup {k}
    /\ UNCHANGED <<instances, active, actions, state, value, events, time, output,
                   mock, externally_mocked, first_activation, consumed, pending,
                   phase, sink, tick_end_state,
                   tracker, chain, merged, results, held,
                   condition, history>>

Release(k) ==
    /\ phase = "idle"
    /\ k \in keys
    /\ keys' = keys \ {k}
    /\ held' = HeldOnRelease(held, k)
    /\ UNCHANGED <<instances, active, actions, state, value, events, time, output,
                   mock, externally_mocked, first_activation, consumed, pending,
                   phase, sink, tick_end_state,
                   tracker, chain, merged, results, condition, history>>

\* ------------------------------------------------------------- observers
\* On<Insert, ContextPriority<C>> for a context that is not registered yet
register(c, priority) ==
    /\ phase = "idle"
    /\ c \notin Registered(instances)
    /\ \E index \in SearchPositions(instances, priority) :
         instances' = InstancesAdd(instances, c, priority, index)
    /\ UNCHANGED <<keys, active, actions, state, value, events, time, output,
                   mock, externally_mocked, first_activation, consumed, pending,
                   phase, sink, tick_end_state,
                   tracker, chain, merged, results, held,
                   condition, history>>

\* On<Replace, ContextPriority<C>> when the context and its required
\* components are removed; a context added again starts active
unregister(c) ==
    /\ phase = "idle"
    /\ c \in Registered(instances)
    /\ instances' = InstancesRemove(instances, c)
    /\ active' = [active EXCEPT ![c] = TRUE]
    /\ UNCHANGED <<keys, actions, state, value, events, time, output,
                   mock, externally_mocked, first_activation, consumed, pending,
                   phase, sink, tick_end_state,
                   tracker, chain, merged, results, held,
                   condition, history>>

\* a new ContextPriority<C> inserted over the old one: `unregister`, then
\* `register`
reprioritize(c, priority) ==
    /\ phase = "idle"
    /\ c \in Registered(instances)
    /\ LET removed == InstancesRemove(instances, c)
       IN \E index \in SearchPositions(removed, priority) :
            instances' = InstancesAdd(removed, c, priority, index)
    /\ UNCHANGED <<keys, active, actions, state, value, events, time, output,
                   mock, externally_mocked, first_activation, consumed, pending,
                   phase, sink, tick_end_state,
                   tracker, chain, merged, results, held,
                   condition, history>>

\* inputs of the bindings of the require_reset actions in `as`
\* faulty variant: no input is made pending
ResetInputs_None(as) == {}

ResetInputs(as) ==
    UNION {{Binding[Bindings[as[i]][j]].key : j \in 1..Len(Bindings[as[i]])} :
             i \in {n \in 1..Len(as) : Settings[as[n]].require_reset}}

\* On<Insert, ContextActivity<C>>
deactivate(c, activity) ==
    /\ phase = "idle"
    /\ c \in Registered(instances)
    /\ active' = [active EXCEPT ![c] = activity]
    /\ pending' = IF ~activity THEN pending \cup ResetInputs(actions[c]) ELSE pending
    /\ held' = IF activity /\ ~active[c] THEN HeldOnActivate(held, actions[c], keys)
               ELSE held
    /\ UNCHANGED <<keys, instances, actions, state, value, events, time, output,
                   mock, externally_mocked, first_activation, consumed,
                   phase, sink, tick_end_state,
                   tracker, chain, merged, results, condition, history>>

\* the value an action is reset to
\* faulty variant: the value is kept
ResetValue_Keep(v) == v

ResetValue(v) == Zero(v.dim)

\* the events an action is reset with
\* faulty variant: the events of the last update are notified again
ResetEvents_Stale(st, evs) == evs

ResetEvents(st, evs) == ActionEventsNew(st, "None")

\* On<Remove, ActionOf<C>>: the action leaves its context
reset_action(c, a) ==
    /\ phase = "idle"
    /\ \E i \in 1..Len(actions[c]) :
         /\ actions[c][i] = a
         /\ actions' = [actions EXCEPT ![c] = RemoveAt(@, i)]
    /\ time' = [time EXCEPT ![a] = NoTime]
    /\ events' = [events EXCEPT ![a] = ResetEvents(state[a], events[a])]
    /\ state' = [state EXCEPT ![a] = "None"]
    /\ value' = [value EXCEPT ![a] = ResetValue(value[a])]
    /\ sink' = sink \o Trigger(c, a, "None", ResetEvents(state[a], events[a]))
    /\ pending' = IF Settings[a].require_reset
                  THEN pending \cup ResetInputs(<<a>>) ELSE pending
    /\ UNCHANGED <<keys, instances, active, output, mock, externally_mocked,
                   first_activation, consumed, phase, tick_end_state,
                   tracker, chain, merged, results, held,
                   condition, history>>

\* ------------------------------------------------------ mocks and markers
MockValues == {Val("Bool", 1, 0, 0)}

MockSpans == {Updates(n) : n \in 1..MaxMockUpdates} \cup {Manual}

\* an ActionMock is inserted on the action
insert_mock(a, st, v, span) ==
    /\ phase = "idle"
    /\ mock' = [mock EXCEPT ![a] =
                  [enabled |-> TRUE, state |-> st, value |-> v, span |-> span]]
    /\ UNCHANGED <<keys, instances, active, actions, state, value, events, time,
                   output, externally_mocked, first_activation, consumed, pending,
                   phase, sink, tick_end_state,
                   tracker, chain, merged, results, held,
                   condition, history>>

\* the ExternallyMocked marker is inserted on or removed from the action
mark_externally_mocked(a) ==
    /\ phase = "idle"
    /\ externally_mocked' = IF a \in externally_mocked
                            THEN externally_mocked \ {a}
                            ELSE externally_mocked \cup {a}
    /\ UNCHANGED <<keys, instances, active, actions, state, value, events, time,
                   output, mock, first_activation, consumed, pending,
                   phase, sink, tick_end_state,
                   tracker, chain, merged, results, held,
                   condition, history>>

\* --------------------------------------------------------------- the tick
\* one run of the schedule up to the end of `update`: the Prepare system,
\* then the update system
update ==
    /\ phase = "idle"
    /\ {a \in Actions : state[a] # "None" /\ time[a].elapsed_secs >= MaxTime} = {}
    /\ \E r \in {UpdateResult} :
          /\ actions' = r.actions
          /\ state' = r.state
          /\ value' = r.value
          /\ events' = r.events
          /\ time' = r.time
          /\ mock' = r.mock
          /\ first_activation' = r.first_activation
          /\ consumed' = r.consumed
          /\ held' = HeldOnUpdate(held, r.trace, keys)
          /\ condition' = IF condition.kind = "Components"
                          THEN [condition EXCEPT !.of = r.conditions]
                          ELSE condition
    /\ pending' = UpdatePending(pending, keys)
    /\ sink' = <<>>
    /\ phase' = "updated"
    /\ UNCHANGED <<keys, instances, active, output, externally_mocked,
                   tick_end_state,
                   tracker, chain, merged, results, history>>

apply ==
    /\ phase = "updated"
    /\ output' = [a \in Actions |->
                    IF a \in Applied THEN Convert(value[a], ActionDim[a]) ELSE output[a]]
    /\ sink' = sink \o ApplyInstances(1)
    /\ tick_end_state' = state
    /\ phase' = "idle"
    /\ UNCHANGED <<keys, instances, active, actions, state, value, events, time,
                   mock, externally_mocked, first_activation, consumed, pending,
                   tracker, chain, merged, results, held,
                   condition, history>>

\* ------------------------------------------ combination of conditions
\* the next condition of a chain is evaluated to `st` and applied
apply_condition(kind, st) ==
    /\ Len(chain) < MaxConds
    /\ tracker' = TrackerApplyCondition(tracker, kind, st)
    /\ chain' = Append(chain, [kind |-> kind, state |-> st])
    /\ UNCHANGED <<keys, instances, active, actions, state, value, events, time,
                   output, mock, externally_mocked, first_activation, consumed,
                   pending, phase, sink, tick_end_state, merged, results, held,
                   condition, history>>

\* ------------------------------------------------ merging of bindings
\* the tracker and the consume buffer of action `a` before its first binding
MergeStart(a) ==
    [action |-> a, tracker |-> TrackerNew(Zero(ActionDim[a])), buffer |-> <<>>,
     consumed |-> {}, first_activation |-> [b \in BindingIds |-> TRUE],
     reads |-> <<>>]

MergeActions == {15, 16}

\* what the modifiers and conditions of one binding may leave: a value and
\* the state of one explicit condition
MergeValues == {-1, 1, 2}

BindingResults ==
    {TrackerApplyCondition(TrackerNew(Val("Axis1D", x, 0, 0)), "Explicit", st) :
       x \in MergeValues, st \in ActionStates}

\* the next binding of the action evaluated to `current` and merged
merge_binding(current) ==
    /\ Len(results) < Len(Bindings[merged.action])
    /\ merged' = MergeBinding(merged, merged.action,
                              Bindings[merged.action][Len(results) + 1], current)
    /\ results' = Append(results, current)
    /\ UNCHANGED <<keys, instances, active, actions, state, value, events, time,
                   output, mock, externally_mocked, first_activation, consumed,
                   pending, phase, sink, tick_end_state, tracker, chain, held,
                   condition, history>>

\* ---------------------------------------------------------- specifications
\* layered contexts evaluated from input
Next ==
    \/ \E k \in Keys : Press(k)
    \/ \E k \in Keys : Release(k)
    \/ \E c \in LayeredContexts, p \in 0..MaxPriority : register(c, p)
    \/ \E c \in LayeredContexts : unregister(c)
    \/ \E c \in LayeredContexts, p \in 0..MaxPriority : reprioritize(c, p)
    \/ \E c \in LayeredContexts, b \in BOOLEAN : deactivate(c, b)
    \/ update
    \/ apply

Spec == Init /\ [][Next]_vars

\* one context whose actions are mocked, marked and removed
NextOverride ==
    \/ \E k \in Keys : Press(k)
    \/ \E k \in Keys : Release(k)
    \/ \E c \in OverrideContexts, p \in 0..MaxPriority : register(c, p)
    \/ \E c \in OverrideContexts : unregister(c)
    \/ \E c \in OverrideContexts, b \in BOOLEAN : deactivate(c, b)
    \/ \E c \in OverrideContexts, a \in Actions : reset_action(c, a)
    \/ \E a \in Mockable, st \in ActionStates, v \in MockValues, span \in MockSpans :
         insert_mock(a, st, v, span)
    \/ \E a \in ExternallyMockable : mark_externally_mocked(a)
    \/ update
    \/ apply

SpecOverride == Init /\ [][NextOverride]_vars

\* a chain of conditions applied to one tracker
InitConditions ==
    /\ InitWorld
    /\ condition = NoCondition
    /\ history = NoHistory
    /\ \E v \in {Zero("Bool"), Val("Bool", 1, 0, 0)} : tracker = TrackerNew(v)
    /\ chain = <<>>
    /\ merged = <<>>
    /\ results = <<>>

NextConditions ==
    \E kind \in ConditionKinds, st \in ActionStates : apply_condition(kind, st)

SpecConditions == InitConditions /\ [][NextConditions]_vars

\* one context with an action without conditions and one with Down(0)
DownContexts == {9}

NextDown ==
    \/ \E k \in Keys : Press(k)
    \/ \E k \in Keys : Release(k)
    \/ \E c \in DownContexts, p \in 0..MaxPriority : register(c, p)
    \/ \E c \in DownContexts : unregister(c)
    \/ \E c \in DownContexts, b \in BOOLEAN : deactivate(c, b)
    \/ update
    \/ apply

SpecDown == Init /\ [][NextDown]_vars

\* the bindings of one action merged one after the other
InitMerge ==
    /\ InitWorld
    /\ condition = NoCondition
    /\ history = NoHistory
    /\ tracker = TrackerNew(Zero("Bool"))
    /\ chain = <<>>
    /\ \E a \in MergeActions : merged = MergeStart(a)
    /\ results = <<>>

NextMerge ==
    \E current \in BindingResults : merge_binding(current)

SpecMerge == InitMerge /\ [][NextMerge]_vars

\* contexts with a require_reset action and a consuming one layered over it
\* (tests/require_reset.rs): activation, removal and ticks
ResetContexts == {7, 8}

\* the actions that are removed from their context: the require_reset ones
ResetActions == {a \in Actions : Settings[a].require_reset}

NextReset ==
    \/ \E k \in Keys : Press(k)
    \/ \E k \in Keys : Release(k)
    \/ \E c \in ResetContexts, p \in 0..MaxPriority : register(c, p)
    \/ \E c \in ResetContexts : unregister(c)
    \/ \E c \in ResetContexts, b \in BOOLEAN : deactivate(c, b)
    \/ \E c \in ResetContexts, a \in ResetActions : reset_action(c, a)
    \/ update
    \/ apply

SpecReset == Init /\ [][NextReset]_vars

\* one context with two actions on the same key at a time
\* (tests/consume_input.rs)
ConsumeContexts == {4, 5, 6, 7}

NextConsume ==
    \/ \E k \in Keys : Press(k)
    \/ \E k \in Keys : Release(k)
    \/ \E c \in ConsumeContexts : instances = <<>> /\ register(c, 0)
    \/ \E c \in ConsumeContexts : unregister(c)
    \/ \E c \in ConsumeContexts, b \in BOOLEAN : deactivate(c, b)
    \/ update
    \/ apply

SpecConsume == Init /\ [][NextConsume]_vars

\* one context whose actions differ in the modifier keys of their bindings
\* (tests/consume_input.rs, modifiers)
ModsContexts == {10}

NextMods ==
    \/ \E k \in Keys \cup ModifierKeys : Press(k)
    \/ \E k \in Keys \cup ModifierKeys : Release(k)
    \/ \E c \in ModsContexts : register(c, 0)
    \/ \E c \in ModsContexts : unregister(c)
    \/ \E c \in ModsContexts, b \in BOOLEAN : deactivate(c, b)
    \/ update
    \/ apply

SpecMods == Init /\ [][NextMods]_vars

\* a mock whose value has another dimension than the output of its action:
\* an f32 for the bool action 1 of context 1
MismatchValues == {Val("Axis1D", 2, 0, 0)}

NextMockDim ==
    \/ \E k \in Keys : Press(k)
    \/ \E k \in Keys : Release(k)
    \/ \E c \in OverrideContexts : register(c, 0)
    \/ \E c \in OverrideContexts, b \in BOOLEAN : deactivate(c, b)
    \/ \E a \in Mockable, st \in ActionStates, v \in MockValues \cup MismatchValues :
         insert_mock(a, st, v, Updates(1))
    \/ update
    \/ apply

SpecMockDim == Init /\ [][NextMockDim]_vars

\* a mock may also be inserted with a span of no evaluation at all,
\* MockSpan::Updates(0)
ZeroSpans == {Updates(0)}

NextMockZero ==
    \/ \E k \in Keys : Press(k)
    \/ \E k \in Keys : Release(k)
    \/ \E c \in OverrideContexts, p \in 0..MaxPriority : register(c, p)
    \/ \E c \in OverrideContexts, b \in BOOLEAN : deactivate(c, b)
    \/ \E a \in Mockable, st \in ActionStates, v \in MockValues,
          span \in MockSpans \cup ZeroSpans : insert_mock(a, st, v, span)
    \/ update
    \/ apply

SpecMockZero == Init /\ [][NextMockZero]_vars

\* ------------------------------------- actions with condition components
\* the actions 25, 27 and 29 carry their condition components
InitComponents ==
    /\ InitWorld
    /\ condition = [kind |-> "Components", of |-> Components]
    /\ history = NoHistory
    /\ tracker = TrackerNew(Zero("Bool"))
    /\ chain = <<>>
    /\ merged = <<>>
    /\ results = <<>>

\* contexts that are switched off and on: context 7 with the require_reset
\* action 10, context 13 with the Hold of action 29, which may be mocked
InactiveContexts == {7, 13}

InactiveMockable == {29}

NextInactive ==
    \/ \E k \in Keys : Press(k)
    \/ \E k \in Keys : Release(k)
    \/ \E c \in InactiveContexts : register(c, 0)
    \/ \E c \in InactiveContexts, b \in BOOLEAN : deactivate(c, b)
    \/ \E a \in InactiveMockable, span \in MockSpans :
         insert_mock(a, "Fired", Val("Bool", 1, 0, 0), span)
    \/ update
    \/ apply

SpecInactive == InitComponents /\ [][NextInactive]_vars

\* the contexts of the chords: the chord of action 25 names an action of its
\* own context that comes after it and an action of context 12, the chord of
\* action 27 an action of its own context that comes before it
ChordContexts == {11, 12}

NextChordTick ==
    \/ \E k \in Keys : Press(k)
    \/ \E k \in Keys : Release(k)
    \/ \E c \in ChordContexts, p \in 0..MaxPriority : register(c, p)
    \/ \E c \in ChordContexts, p \in 0..MaxPriority : reprioritize(c, p)
    \/ \E b \in BOOLEAN : deactivate(12, b)
    \/ update
    \/ apply

SpecChordTick == InitComponents /\ [][NextChordTick]_vars

\* ------------------------------------------------------ timed conditions
\* the axis values a timed condition is evaluated with: 0.0, 0.5 and 1.0
TimedInputs == {Val("Axis1D", x, 0, 0) : x \in 0..2}

\* What the evaluations so far were given and returned.  A run is a maximal
\* sequence of consecutive evaluations with an actuated input.
\*   held_time   the clock deltas of the actuated evaluations of the current run
\*   fired       the number of them that returned Fired
\*   ended_*     the same for the run that the last evaluation has ended, and
\*   ended_time  its held time plus the delta of the evaluation that ended it
HistoryNext(h, actuated, delta, result) ==
    [count |-> h.count + 1,
     actuated |-> actuated,
     preceded |-> h.actuated,
     result |-> result,
     runs |-> IF actuated /\ ~h.actuated THEN h.runs + 1 ELSE h.runs,
     held_time |-> IF actuated THEN h.held_time + delta ELSE 0,
     fired |-> IF actuated THEN h.fired + (IF result = "Fired" THEN 1 ELSE 0) ELSE 0,
     ended_time |-> IF ~actuated /\ h.actuated THEN h.held_time + delta ELSE 0,
     ended_held |-> IF ~actuated /\ h.actuated THEN h.held_time ELSE 0,
     ended_fired |-> IF ~actuated /\ h.actuated THEN h.fired ELSE 0]

Untimed ==
    UNCHANGED <<keys, instances, active, actions, state, value, events, time, output,
                mock, externally_mocked, first_activation, consumed, pending,
                phase, sink, tick_end_state, tracker, chain, merged, results, held>>

\* one evaluation of the Hold condition with the input v, delta after the last
evaluate_hold(v, delta) ==
    /\ condition.kind = "Hold"
    /\ history.count < MaxEvaluations
    /\ LET r == HoldEvaluate(condition, delta, v)
       IN  /\ condition' = r.condition
           /\ history' = HistoryNext(history, IsActuated(v, condition.actuation),
                                     delta, r.state)
    /\ Untimed

InitHold ==
    /\ InitWorld
    /\ tracker = TrackerNew(Zero("Bool"))
    /\ chain = <<>>
    /\ merged = <<>>
    /\ results = <<>>
    /\ \E hold_time \in 1..MaxHoldTime, one_shot \in BOOLEAN :
         condition = Hold(hold_time, one_shot)
    /\ history = NoHistory

NextHold ==
    \E v \in TimedInputs, delta \in 0..MaxDelta : evaluate_hold(v, delta)

SpecHold == InitHold /\ [][NextHold]_vars

\* HoldAndRelease::new(hold_time)
HoldAndRelease(hold_time) ==
    [kind |-> "HoldAndRelease", actuation |-> DEFAULT_ACTUATION,
     timer |-> TimerFromSeconds(hold_time, "Once")]

\* HoldAndRelease::evaluate: the timer is ticked on every evaluation, before
\* the input is looked at
HoldAndReleaseEvaluate(cond, delta, v) ==
    LET timer == TimerTick(cond.timer, delta)
    IN  IF IsActuated(v, cond.actuation)
        THEN [condition |-> [cond EXCEPT !.timer = timer], state |-> "Ongoing"]
        ELSE [condition |-> [cond EXCEPT !.timer = TimerReset(timer)],
              state |-> IF timer.finished THEN "Fired" ELSE "None"]

\* one evaluation of the HoldAndRelease condition
evaluate_hold_and_release(v, delta) ==
    /\ condition.kind = "HoldAndRelease"
    /\ history.count < MaxEvaluations
    /\ LET r == HoldAndReleaseEvaluate(condition, delta, v)
       IN  /\ condition' = r.condition
           /\ history' = HistoryNext(history, IsActuated(v, condition.actuation),
                                     delta, r.state)
    /\ Untimed

InitHoldAndRelease ==
    /\ InitWorld
    /\ tracker = TrackerNew(Zero("Bool"))
    /\ chain = <<>>
    /\ merged = <<>>
    /\ results = <<>>
    /\ \E hold_time \in 1..MaxHoldTime : condition = HoldAndRelease(hold_time)
    /\ history = NoHistory

NextHoldAndRelease ==
    \E v \in TimedInputs, delta \in 0..MaxDelta : evaluate_hold_and_release(v, delta)

SpecHoldAndRelease == InitHoldAndRelease /\ [][NextHoldAndRelease]_vars

\* Pulse::new(interval).with_trigger_limit(trigger_limit)
\*     .trigger_on_start(trigger_on_start), and .with_initial_delay(d) when
\* initial_delay is <<d>> rather than <<>>
Pulse(interval, trigger_limit, trigger_on_start, initial_delay) ==
    [kind |-> "Pulse", trigger_limit |-> trigger_limit,
     trigger_on_start |-> trigger_on_start, actuation |-> DEFAULT_ACTUATION,
     initial_delay |-> initial_delay, interval |-> interval,
     timer |-> IF initial_delay = <<>>
               THEN TimerFromSeconds(interval, "Repeating")
               ELSE TimerSetDuration(TimerFromSeconds(interval, "Repeating"),
                                     initial_delay[1]),
     trigger_count |-> 0, started_actuation |-> FALSE]

\* the mutation of C30: the limit is never looked at
PulseWithinLimit_Always(cond) == TRUE

\* whether the condition may still fire: no limit, or the limit not reached
PulseWithinLimit(cond) ==
    cond.trigger_limit = 0 \/ cond.trigger_count < cond.trigger_limit

\* Pulse::evaluate
PulseEvaluate(cond, delta, v) ==
    IF IsActuated(v, cond.actuation)
    THEN LET timer == TimerTick(cond.timer, delta)
             should_fire == \/ (~cond.started_actuation /\ cond.trigger_on_start)
                            \/ TimerJustFinished(timer)
             started == [cond EXCEPT !.started_actuation = TRUE, !.timer = timer]
         IN  IF PulseWithinLimit(cond)
             THEN (IF should_fire
                   THEN [condition |->
                           [started EXCEPT
                              !.timer = IF cond.initial_delay # <<>> /\ cond.trigger_count >= 1
                                        THEN TimerSetDuration(TimerReset(timer), cond.interval)
                                        ELSE timer,
                              !.trigger_count = cond.trigger_count + 1],
                         state |-> "Fired"]
                   ELSE [condition |-> started, state |-> "Ongoing"])
             ELSE [condition |-> started, state |-> "None"]
    ELSE [condition |->
            [cond EXCEPT !.timer = TimerReset(IF cond.initial_delay # <<>>
                                              THEN TimerSetDuration(cond.timer,
                                                                    cond.initial_delay[1])
                                              ELSE cond.timer),
                         !.trigger_count = 0,
                         !.started_actuation = FALSE],
          state |-> "None"]

\* one evaluation of the Pulse condition
evaluate_pulse(v, delta) ==
    /\ condition.kind = "Pulse"
    /\ history.count < MaxEvaluations
    /\ LET r == PulseEvaluate(condition, delta, v)
       IN  /\ condition' = r.condition
           /\ history' = HistoryNext(history, IsActuated(v, condition.actuation),
                                     delta, r.state)
    /\ Untimed

InitPulse ==
    /\ InitWorld
    /\ tracker = TrackerNew(Zero("Bool"))
    /\ chain = <<>>
    /\ merged = <<>>
    /\ results = <<>>
    /\ \E interval \in 1..MaxHoldTime, trigger_limit \in 0..MaxLimit,
          trigger_on_start \in BOOLEAN,
          initial_delay \in {<<>>} \cup {<<d>> : d \in 1..MaxHoldTime} :
         condition = Pulse(interval, trigger_limit, trigger_on_start, initial_delay)
    /\ history = NoHistory

NextPulse ==
    \E v \in TimedInputs, delta \in 0..MaxDelta : evaluate_pulse(v, delta)

SpecPulse == InitPulse /\ [][NextPulse]_vars

\* Timer::set_elapsed: the finished flag is left to the next tick
TimerSetElapsed(t, elapsed) == [t EXCEPT !.elapsed = elapsed]

\* Cooldown::new(cd).only_when_released(only_when_released): the timer starts
\* with the whole cooldown elapsed
Cooldown(cd, only_when_released) ==
    [kind |-> "Cooldown", actuation |-> DEFAULT_ACTUATION,
     only_when_released |-> only_when_released, actuated |-> FALSE,
     timer |-> TimerSetElapsed(TimerFromSeconds(cd, "Once"), cd)]

\* the mutation of C32: the timer is ticked on every evaluation
CooldownAdvances_Always(cond) == TRUE

\* whether an evaluation ticks the timer: not while the timer stands at zero
\* and the input was actuated on the last evaluation
CooldownAdvances(cond) ==
    \/ ~cond.only_when_released
    \/ (cond.only_when_released /\ ~(cond.timer.elapsed = 0 /\ cond.actuated))

\* Cooldown::evaluate
CooldownEvaluate(cond, delta, v) ==
    LET last_actuated == cond.actuated
        timer == IF CooldownAdvances(cond) THEN TimerTick(cond.timer, delta)
                 ELSE cond.timer
        actuated == IsActuated(v, cond.actuation)
    IN  IF actuated /\ ~last_actuated /\ timer.finished
        THEN [condition |-> [cond EXCEPT !.actuated = actuated,
                                         !.timer = TimerReset(timer)],
              state |-> "Fired"]
        ELSE [condition |-> [cond EXCEPT !.actuated = actuated, !.timer = timer],
              state |-> "None"]

\* What the evaluations of a Cooldown were given and returned.
\*   fires      the number of evaluations that returned Fired
\*   presses    the number of rising edges of the input
\*   released   the clock deltas, since the last Fired, of the evaluations
\*              between which the input was released: those with an input
\*              that is not actuated and those that follow one
\*   cooled     the clock deltas, since the last Fired, of all evaluations but
\*              those that found nothing counted yet and the input actuated on
\*              the evaluation before
NoCooldownHistory ==
    [count |-> 0, actuated |-> FALSE, preceded |-> FALSE, result |-> "None",
     fires |-> 0, presses |-> 0, released |-> 0, cooled |-> 0,
     fired_released |-> 0, fired_cooled |-> 0]

CooldownHistoryNext(h, actuated, delta, result) ==
    LET released == IF actuated /\ h.actuated THEN h.released
                    ELSE h.released + delta
        cooled == IF h.cooled = 0 /\ h.actuated THEN 0 ELSE h.cooled + delta
    IN  [count |-> h.count + 1,
         actuated |-> actuated,
         preceded |-> h.actuated,
         result |-> result,
         fires |-> h.fires + (IF result = "Fired" THEN 1 ELSE 0),
         presses |-> h.presses + (IF actuated /\ ~h.actuated THEN 1 ELSE 0),
         released |-> IF result = "Fired" THEN 0 ELSE released,
         cooled |-> IF result = "Fired" THEN 0 ELSE cooled,
         fired_released |-> IF result = "Fired" THEN released ELSE 0,
         fired_cooled |-> IF result = "Fired" THEN cooled ELSE 0]

\* one evaluation of the Cooldown condition
evaluate_cooldown(v, delta) ==
    /\ condition.kind = "Cooldown"
    /\ history.count < MaxCooldownEvaluations
    /\ LET r == CooldownEvaluate(condition, delta, v)
       IN  /\ condition' = r.condition
           /\ history' = CooldownHistoryNext(history,
                                             IsActuated(v, condition.actuation),
                                             delta, r.state)
    /\ Untimed

InitCooldown ==
    /\ InitWorld
    /\ tracker = TrackerNew(Zero("Bool"))
    /\ chain = <<>>
    /\ merged = <<>>
    /\ results = <<>>
    /\ \E cd \in 1..MaxHoldTime, only_when_released \in BOOLEAN :
         condition = Cooldown(cd, only_when_released)
    /\ history = NoCooldownHistory

NextCooldown ==
    \E v \in TimedInputs, delta \in 0..MaxDelta : evaluate_cooldown(v, delta)

SpecCooldown == InitCooldown /\ [][NextCooldown]_vars

\* ------------------------------------------- conditions on other actions
\* The entities a Chord or a Combo may name.  A world gives the ones that
\* exist as actions their TriggerState and their ActionEvents; the others
\* are not valid actions.
RefEntities == 1..3

\* the sequences over S of the lengths lo..hi
SeqsOf(S, lo, hi) == UNION {[1..n -> S] : n \in lo..hi}


\* the worlds a Chord is evaluated in: any of the entities may be missing
ChordWorlds ==
    UNION {[S -> [state : ActionStates]] : S \in SUBSET RefEntities}

NoChordHistory == [count |-> 0, world |-> <<>>, result |-> "None"]

\* one evaluation of the Chord condition
evaluate_chord(world) ==
    /\ condition.kind = "Chord"
    /\ condition' = condition
    /\ history' = [count |-> 1, world |-> world,
                   result |-> ChordEvaluate(condition, world)]
    /\ Untimed

InitChord ==
    /\ InitWorld
    /\ tracker = TrackerNew(Zero("Bool"))
    /\ chain = <<>>
    /\ merged = <<>>
    /\ results = <<>>
    /\ \E chord_actions \in SeqsOf(RefEntities, 0, MaxChord) :
         condition = Chord(chord_actions)
    /\ history = NoChordHistory

NextChord == \E world \in ChordWorlds : evaluate_chord(world)

SpecChord == InitChord /\ [][NextChord]_vars

\* ------------------------------------------------------------------ Combo
\* The steps of the modelled combos are on the entities 1 and 2: a step on
\* entity 1 waits for Completed within one unit of time (ComboStep::new, the
\* unit being its default timeout), a step on entity 2 for Started and Fired
\* together within MaxHoldTime units (with_events, with_timeout).  Entity 3
\* is the cancel action.
StepActions == {1, 2}

StepEvents == [e \in StepActions |-> IF e = 1 THEN {"Complete"} ELSE {"Start", "Fire"}]

StepTimeout == [e \in StepActions |-> IF e = 1 THEN 1 ELSE MaxHoldTime]

ComboStep(action) ==
    [action |-> action, events |-> StepEvents[action], timeout |-> StepTimeout[action]]

\* CancelAction::new: cancels on Ongoing or Fired
CancelAction(action) == [action |-> action, events |-> {"Ongoing", "Fire"}]

\* the cancel actions of the modelled combos: none, entity 3, or entity 1,
\* which is also the action of a step
CancelLists == {<<>>, <<CancelAction(3)>>, <<CancelAction(1)>>}

\* Combo::default() with the steps and cancel actions added; the default
\* timer has the duration zero
Combo(steps, cancel_actions) ==
    [kind |-> "Combo", steps |-> steps, cancel_actions |-> cancel_actions,
     step_index |-> 0, timer |-> TimerFromSeconds(0, "Once")]

\* Combo::reset
ComboReset(c) ==
    [c EXCEPT !.step_index = 0,
              !.timer = TimerSetDuration(TimerReset(c.timer),
                                         IF c.steps = <<>> THEN 0
                                         ELSE c.steps[1].timeout)]

\* steps[step_index]: sequences are counted from 1 here
CurrentStep(c) == c.steps[c.step_index + 1]

\* Combo::is_cancelled
ComboIsCancelled(c, world) ==
    \/ \E i \in 1..Len(c.cancel_actions) :
         /\ c.cancel_actions[i].action # CurrentStep(c).action
         /\ c.cancel_actions[i].action \in DOMAIN world
         /\ world[c.cancel_actions[i].action].events \cap c.cancel_actions[i].events # {}
    \/ \E i \in 1..Len(c.steps) :
         /\ c.steps[i].action # CurrentStep(c).action
         /\ c.steps[i].action \in DOMAIN world
         /\ world[c.steps[i].action].events \cap c.steps[i].events # {}

\* the mutation of C37: the timeout of a step is never looked at
ComboTimeout_Never(c, delta) == [c EXCEPT !.timer = TimerTick(c.timer, delta)]

\* the timeout of Combo::evaluate: past the first step the timer is ticked,
\* and the combo is reset when it is finished
ComboTimeout(c, delta) ==
    LET ticked == [c EXCEPT !.timer = TimerTick(c.timer, delta)]
    IN  IF ticked.timer.finished THEN ComboReset(ticked) ELSE ticked

\* the mutation of C35: the combo stays at its last step when it completes
ComboAdvance_NoReset(c) ==
    IF c.step_index + 1 >= Len(c.steps)
    THEN [condition |-> c, state |-> "Fired"]
    ELSE [condition |-> [c EXCEPT !.step_index = c.step_index + 1,
                                  !.timer = TimerSetDuration(TimerReset(c.timer),
                                                c.steps[c.step_index + 2].timeout)],
          state |-> "Ongoing"]

\* the events of the current step were seen: the combo completes or goes on
\* to the next step, whose timeout starts
ComboAdvance(c) ==
    IF c.step_index + 1 >= Len(c.steps)
    THEN [condition |-> ComboReset([c EXCEPT !.step_index = c.step_index + 1]),
          state |-> "Fired"]
    ELSE [condition |-> [c EXCEPT !.step_index = c.step_index + 1,
                                  !.timer = TimerSetDuration(TimerReset(c.timer),
                                                c.steps[c.step_index + 2].timeout)],
          state |-> "Ongoing"]

\* the mutation of C36: a cancelled combo is not reset
ComboCancel_Ignore(c, world) == c

\* the start of Combo::evaluate: a cancelled combo is reset, and evaluated on
ComboCancel(c, world) == IF ComboIsCancelled(c, world) THEN ComboReset(c) ELSE c

\* Combo::evaluate
ComboEvaluate(cond, delta, world) ==
    IF cond.steps = <<>> THEN [condition |-> cond, state |-> "None"]
    ELSE LET c1 == ComboCancel(cond, world)
             c2 == IF c1.step_index > 0 THEN ComboTimeout(c1, delta) ELSE c1
             current_step == CurrentStep(c2)
         IN  IF current_step.action \notin DOMAIN world
             THEN [condition |-> ComboReset(c2), state |-> "None"]
             ELSE IF current_step.events \subseteq world[current_step.action].events
             THEN ComboAdvance(c2)
             ELSE [condition |-> c2,
                   state |-> IF c2.step_index > 0
                                \/ StateRank(world[current_step.action].state) > 0
                             THEN "Ongoing" ELSE "None"]

\* what an action looks like to a Combo: its state and the events of its
\* last transition
ActionViews ==
    {[state |-> "None", events |-> {}],
     [state |-> "None", events |-> {"Complete"}],
     [state |-> "Fired", events |-> {"Start", "Fire"}],
     [state |-> "Fired", events |-> {"Fire"}]}

\* the views the entities take: entity 1 is never seen starting, entity 2
\* never completing, and the cancel action only at rest or firing
ViewsOf(e) ==
    CASE e = 1 -> {v \in ActionViews : "Start" \notin v.events}
      [] e = 2 -> {v \in ActionViews : "Complete" \notin v.events}
      [] OTHER -> {v \in ActionViews : v.events \in {{}, {"Fire"}}}

\* the worlds a Combo is evaluated in: any of the entities may be missing
ComboWorlds ==
    UNION {{world \in [S -> ActionViews] : \A e \in S : world[e] \in ViewsOf(e)} :
             S \in SUBSET RefEntities}

\* What the last evaluation of a Combo was given and returned.
\*   index      the step the combo was at before the evaluation
\*   seen       the action of that step exists and shows all events of the step
\*   missing    the action of that step does not exist
\*   cancel     a cancel action other than that step's action shows one of
\*              its cancel events
\*   disorder   the action of a step, other than that step's action, shows
\*              one of the events of its step
\*   first      the action of the first step exists and shows all its events
\*   waited     the clock deltas of the evaluations since the one that matched
\*              the step before, this one included (counted up to MaxHoldTime)
\*   since      the same after the evaluation: zero when it has matched a
\*              step or has restarted the combo
NoComboHistory ==
    [count |-> 0, index |-> 0, seen |-> FALSE, missing |-> FALSE, cancel |-> FALSE,
     disorder |-> FALSE, first |-> FALSE, delta |-> 0, waited |-> 0, since |-> 0,
     result |-> "None"]

Shows(world, action, evs) ==
    action \in DOMAIN world /\ evs \subseteq world[action].events

ShowsAny(world, action, evs) ==
    action \in DOMAIN world /\ evs \cap world[action].events # {}

Shortest(m, n) == IF m <= n THEN m ELSE n

ComboHistoryNext(h, c, delta, world, r) ==
    LET cur == CurrentStep(c)
        waited == Shortest(h.since + delta, MaxHoldTime)
        cancel == \E i \in 1..Len(c.cancel_actions) :
                    /\ c.cancel_actions[i].action # cur.action
                    /\ ShowsAny(world, c.cancel_actions[i].action,
                                c.cancel_actions[i].events)
        disorder == \E i \in 1..Len(c.steps) :
                      /\ c.steps[i].action # cur.action
                      /\ ShowsAny(world, c.steps[i].action, c.steps[i].events)
    IN  [count |-> 1,
         index |-> c.step_index,
         seen |-> Shows(world, cur.action, cur.events),
         missing |-> cur.action \notin DOMAIN world,
         cancel |-> cancel,
         disorder |-> disorder,
         first |-> Shows(world, c.steps[1].action, c.steps[1].events),
         delta |-> delta,
         waited |-> IF c.step_index > 0 THEN waited ELSE 0,
         since |-> IF \/ c.step_index = 0
                      \/ r.condition.step_index # c.step_index
                      \/ cancel \/ disorder \/ waited >= cur.timeout
                   THEN 0 ELSE waited,
         result |-> r.state]

\* one evaluation of the Combo condition
evaluate_combo(world, delta) ==
    /\ condition.kind = "Combo"
    /\ LET r == ComboEvaluate(condition, delta, world)
       IN  /\ condition' = r.condition
           /\ history' = IF condition.steps = <<>>
                         THEN [NoComboHistory EXCEPT !.count = 1]
                         ELSE ComboHistoryNext(history, condition, delta, world, r)
    /\ Untimed

InitCombo ==
    /\ InitWorld
    /\ tracker = TrackerNew(Zero("Bool"))
    /\ chain = <<>>
    /\ merged = <<>>
    /\ results = <<>>
    /\ \E steps \in SeqsOf({ComboStep(a) : a \in StepActions}, 0, MaxSteps),
          cancel_actions \in CancelLists :
         condition = Combo(steps, cancel_actions)
    /\ history = NoComboHistory

NextCombo ==
    \E world \in ComboWorlds, delta \in 0..MaxDelta : evaluate_combo(world, delta)

SpecCombo == InitCombo /\ [][NextCombo]_vars

\* ================================================================ claims
\* the actions `update` evaluates: those of registered contexts that do not
\* carry the ExternallyMocked marker
Evaluated ==
    {a \in Actions : a \notin externally_mocked
                     /\ \E c \in Registered(instances) :
                          \E i \in 1..Len(actions[c]) : actions[c][i] = a}

UpdateStep == phase = "idle" /\ phase' = "updated"

ApplyStep == phase = "updated" /\ phase' = "idle"

\* the transition table, as rows <<previous, current, events in emission order>>
TableRows ==
    { <<"None", "None", <<>> >>,
      <<"None", "Ongoing", <<"Start", "Ongoing">> >>,
      <<"None", "Fired", <<"Start", "Fire">> >>,
      <<"Ongoing", "None", <<"Cancel">> >>,
      <<"Ongoing", "Ongoing", <<"Ongoing">> >>,
      <<"Ongoing", "Fired", <<"Fire">> >>,
      <<"Fired", "None", <<"Complete">> >>,
      <<"Fired", "Ongoing", <<"Ongoing">> >>,
      <<"Fired", "Fired", <<"Fire">> >> }

Range(seq) == {seq[i] : i \in 1..Len(seq)}

RECURSIVE NotifiedFor(_, _)
\* the notifications in `log` about action `a`, in order
NotifiedFor(log, a) ==
    IF log = <<>> THEN <<>>
    ELSE (IF Head(log).action = a THEN <<Head(log)>> ELSE <<>>) \o NotifiedFor(Tail(log), a)

EventsOf(log) == [i \in 1..Len(log) |-> log[i].event]

\* C1: for every pair (previous, current) of trigger states the derived
\* event set is exactly the one the transition table lists: after `update`,
\* the event set of every evaluated action is the table's entry for the
\* state it had when the previous tick ended and the state it has now.
C1_TransitionTable ==
    phase = "updated" =>
        \A a \in Evaluated :
            \E row \in TableRows :
                /\ row[1] = tick_end_state[a]
                /\ row[2] = state[a]
                /\ events[a] = Range(row[3])

C1_Witness ==
    /\ phase = "updated"
    /\ \E a \in Evaluated :
         tick_end_state[a] = "Fired" /\ state[a] = "Ongoing" /\ events[a] = {"Ongoing"}

\* C2: in every tick, for every action that `update` evaluates, the events
\* notified in `apply` are exactly the transition-table entry for (state at
\* the end of the previous tick, state computed by this tick's update), each
\* once, in emission order and targeting the owning context, whether the new
\* state came from bindings, from an enabled mock or from an inactive context.
C2_AppliedEvents ==
    [][ApplyStep =>
         \A c \in Registered(instances) :
           \A a \in Range(actions[c]) \cap Evaluated :
            /\ \E row \in TableRows :
                  /\ row[1] = tick_end_state[a]
                  /\ row[2] = state[a]
                  /\ EventsOf(NotifiedFor(sink', a)) = row[3]
            /\ \A n \in Range(NotifiedFor(sink', a)) :
                  n.context = c /\ n.state = state[a]]_vars

C2_Witness ==
    /\ phase = "idle"
    /\ 1 \in Registered(instances)
    /\ mock[1].enabled /\ mock[1].state = "Ongoing"
    /\ state[1] = "Ongoing"
    /\ EventsOf(NotifiedFor(sink, 1)) = <<"Start", "Ongoing">>

\* the first registered context that is active and owns actions
FirstEvaluating ==
    LET live == {i \in 1..Len(instances) :
                    active[instances[i].entity] /\ actions[instances[i].entity] # <<>>}
    IN IF live = {} THEN 0
       ELSE instances[CHOOSE i \in live : \A j \in live : i <= j].entity

\* C3: within one tick, once a consuming action resolves to a non-None state
\* from an input, every action evaluated after it (later in the same context
\* or in a lower-priority context) reads that input as zero; in particular,
\* of the two consuming actions of context 1, both bound to K1, the first
\* spawned is Fired and the second None while K1 is pressed.
C3_ConsumedInputReadsZero ==
    phase = "idle" =>
        LET r == UpdateResult
        IN /\ \A i \in 1..Len(r.trace) : \A j \in (i + 1)..Len(r.trace) :
                LET first == r.trace[i]
                    later == r.trace[j]
                IN (/\ first.path = "input"
                    /\ Settings[first.action].consume_input
                    /\ r.state[first.action] # "None")
                   => \A x \in Range(first.reads) : \A y \in Range(later.reads) :
                         (AsBool(x.value) /\ Binding[x.binding].key = Binding[y.binding].key)
                            => y.value = Zero("Bool")
           /\ (FirstEvaluating = 1 /\ "K1" \in keys /\ actions[1] = <<1, 2>>
                 /\ ~mock[1].enabled /\ ~mock[2].enabled /\ externally_mocked = {})
                => r.state[1] = "Fired" /\ r.state[2] = "None"

C3_Witness ==
    /\ phase = "updated"
    /\ "K1" \in keys
    /\ Len(instances) >= 2
    /\ instances[1].entity = 1 /\ active[1]
    /\ 2 \in Registered(instances) /\ active[2]
    /\ state[1] = "Fired" /\ state[2] = "None" /\ state[3] = "None"
    /\ consumed = {"K1"}

\* priority of the registered context that owns action `a`
OwnerPriority(a) ==
    LET i == CHOOSE n \in 1..Len(instances) : a \in Range(actions[instances[n].entity])
    IN instances[i].priority

\* C4: after any sequence of registrations, removals and priority changes
\* the list of context instances is ordered by non-increasing priority, so
\* `update` never evaluates an action of a lower-priority context before an
\* action of a higher-priority one.
C4_InstancesSorted ==
    /\ \A i \in 1..Len(instances) : \A j \in (i + 1)..Len(instances) :
          instances[i].priority >= instances[j].priority
    /\ phase = "idle" =>
          LET trace == UpdateResult.trace
          IN \A i \in 1..Len(trace) : \A j \in (i + 1)..Len(trace) :
                OwnerPriority(trace[i].action) >= OwnerPriority(trace[j].action)

C4_Witness ==
    /\ Len(instances) = 3
    /\ instances[1].priority > instances[3].priority
    /\ instances[3].entity = 1
    /\ phase = "updated"

\* the registered contexts that are switched to inactive
Inactive == {c \in Registered(instances) : ~active[c]}

Terminal(st) ==
    CASE st = "Ongoing" -> <<"Cancel">>
      [] st = "Fired" -> <<"Complete">>
      [] st = "None" -> <<>>

DeactivateStep == phase = "idle" /\ phase' = "idle" /\ active' # active

\* C6 as stated: when a context is switched to inactive, nothing is notified
\* at the switch, and in the apply of every tick the context spends inactive
\* each of its actions is notified exactly the terminal event of the state it
\* had when the previous tick ended (Cancel for Ongoing, Complete for Fired,
\* nothing for None) and is in state None.
C6_Original ==
    [][/\ DeactivateStep => sink' = sink /\ state' = state /\ events' = events
       /\ ApplyStep =>
            \A c \in Inactive : \A a \in Range(actions[c]) :
               /\ state[a] = "None"
               /\ EventsOf(NotifiedFor(sink', a)) = Terminal(tick_end_state[a])]_vars

\* C6: the same for each action of the context that is not externally
\* mocked: Cancel for an Ongoing action and Complete for a Fired one, once,
\* in the apply of the next tick and not at the switch; afterwards the action
\* stays None and nothing more is notified for it while the context is
\* inactive.
C6_TerminalOnDeactivation ==
    [][/\ DeactivateStep => sink' = sink /\ state' = state /\ events' = events
       /\ ApplyStep =>
            \A c \in Inactive : \A a \in Range(actions[c]) \ externally_mocked :
               /\ state[a] = "None"
               /\ EventsOf(NotifiedFor(sink', a)) = Terminal(tick_end_state[a])]_vars

C6_Witness ==
    /\ phase = "idle"
    /\ 1 \in Inactive
    /\ actions[1] = <<1, 2>> /\ externally_mocked = {}
    /\ EventsOf(NotifiedFor(sink, 1)) = <<"Cancel">>
    /\ EventsOf(NotifiedFor(sink, 2)) = <<"Complete">>
    /\ state[1] = "None" /\ state[2] = "None"

\* C7 as stated: once the tag of a context is removed, the tick that follows
\* leaves every action of that context in state None with the zero value.
C7_RemovalResetsActions ==
    [][ApplyStep =>
         \A c \in Contexts \ Registered(instances) : \A a \in Range(actions[c]) :
            state[a] = "None" /\ value[a] = Zero(ActionDim[a])]_vars

ResetStep == phase = "idle" /\ phase' = "idle" /\ actions' # actions

\* C8: when the relation between an action and its context is removed the
\* action gets a final pass: its timers are zero, its state None, its value
\* the zero of the dimension it had, and exactly the events of the
\* transition from its previous state to None are notified, targeting the
\* former context.
C8_FinalPass ==
    [][ResetStep =>
         \E c \in Contexts : \E a \in Range(actions[c]) \ Range(actions'[c]) :
            /\ time'[a] = NoTime
            /\ state'[a] = "None"
            /\ value'[a] = Zero(value[a].dim)
            /\ \E row \in TableRows :
                  /\ row[1] = state[a]
                  /\ row[2] = "None"
                  /\ events'[a] = Range(row[3])
                  /\ Len(sink') = Len(sink) + Len(row[3])
                  /\ SubSeq(sink', 1, Len(sink)) = sink
                  /\ \A i \in 1..Len(row[3]) :
                        sink'[Len(sink) + i] =
                          [event |-> row[3][i], context |-> c, action |-> a,
                           state |-> "None"]]_vars

C8_Witness ==
    /\ phase = "idle"
    /\ actions[1] = <<2>>
    /\ sink # <<>>
    /\ sink[Len(sink)] = [event |-> "Cancel", context |-> 1, action |-> 1, state |-> "None"]
    /\ state[1] = "None" /\ value[1] = Zero("Bool") /\ time[1] = NoTime
    /\ tick_end_state[1] = "Ongoing"

BlockedIn(ch) == \E i \in 1..Len(ch) : ch[i].kind = "Blocker" /\ ch[i].state = "None"

\* C9: if any Blocker condition of a chain returned None the combined state
\* is None, whatever the other conditions returned and wherever in the chain
\* the Blocker is attached.
C9_BlockerForcesNone ==
    BlockedIn(chain) => TrackerState(tracker) = "None"

C9_Witness ==
    /\ Len(chain) = 3
    /\ chain[1] = [kind |-> "Explicit", state |-> "Fired"]
    /\ chain[2] = [kind |-> "Blocker", state |-> "None"]
    /\ chain[3] = [kind |-> "Blocker", state |-> "Fired"]
    /\ TrackerState(tracker) = "None"

\* the states returned by the Explicit and Implicit conditions of a chain
Returned(ch) == {ch[i].state : i \in {n \in 1..Len(ch) : ch[n].kind # "Blocker"}}

ImplicitFailedIn(ch) == \E i \in 1..Len(ch) : ch[i].kind = "Implicit" /\ ch[i].state # "Fired"

\* C10: when no Blocker forces None, the combined state of a chain with at
\* least one Explicit or Implicit condition is the maximum of the states
\* these conditions returned, except that it is at most Ongoing when an
\* Implicit condition returned a state other than Fired.
C10_MaxCappedByImplicit ==
    (~BlockedIn(chain) /\ Returned(chain) # {}) =>
        LET max == CHOOSE s \in Returned(chain) :
                      \A t \in Returned(chain) : StateRank(t) <= StateRank(s)
        IN TrackerState(tracker) =
             IF ImplicitFailedIn(chain) /\ max = "Fired" THEN "Ongoing" ELSE max

C10_Witness ==
    /\ Len(chain) = 3
    /\ chain[1] = [kind |-> "Explicit", state |-> "Fired"]
    /\ chain[2] = [kind |-> "Implicit", state |-> "None"]
    /\ chain[3] = [kind |-> "Blocker", state |-> "Fired"]
    /\ TrackerState(tracker) = "Ongoing"

\* the bindings merged so far whose own state is not None
Live == {i \in 1..Len(results) : TrackerState(results[i]) # "None"}

\* those of them whose state is the greatest
Top == {i \in Live : \A j \in Live :
                        StateRank(TrackerState(results[j])) <= StateRank(TrackerState(results[i]))}

RECURSIVE SumX(_)
\* the sum of the values of the bindings in `is`
SumX(is) ==
    IF is = {} THEN 0
    ELSE LET i == CHOOSE n \in is : TRUE IN results[i].value.x + SumX(is \ {i})

C12_NoConditionsIsDownZero ==
    /\ state[13] = state[14]
    /\ value[13] = value[14]
    /\ events[13] = events[14]

\* the registered, active context that owns action `a`, as a set
ActiveOwners(a) ==
    {c \in Registered(instances) : active[c] /\ a \in Range(actions[c])}

\* C13: an enabled mock with span Updates(n), n >= 1, on an evaluated action
\* of an active context gives the action the mock's state and value in this
\* tick and leaves Updates(n - 1), still enabled exactly when n > 1: the mock
\* acts on exactly n consecutive ticks and is disabled at the end of the
\* n-th; an action whose mock is disabled is evaluated from its bindings.
C13_MockUpdates ==
    [][UpdateStep =>
         \A a \in Evaluated :
            ActiveOwners(a) # {} =>
               /\ (mock[a].enabled /\ mock[a].span.kind = "Updates" /\ mock[a].span.n >= 1)
                    => /\ state'[a] = mock[a].state
                       /\ value'[a] = mock[a].value
                       /\ mock'[a] = [mock[a] EXCEPT !.span = Updates(mock[a].span.n - 1),
                                                    !.enabled = mock[a].span.n > 1]
               /\ ~mock[a].enabled
                    => /\ mock'[a] = mock[a]
                       /\ \A i \in 1..Len(UpdateResult.trace) :
                             UpdateResult.trace[i].action = a
                                => UpdateResult.trace[i].path = "input"]_vars

C13_Witness ==
    /\ phase = "updated"
    /\ ActiveOwners(1) = {1}
    /\ "K1" \notin keys
    /\ ~mock[1].enabled /\ mock[1].span = Updates(0) /\ mock[1].state = "Ongoing"
    /\ state[1] = "Ongoing" /\ tick_end_state[1] = "Ongoing"
    /\ time[1].elapsed_secs = 1

\* the data of action `a` that the engine evaluates
Data(a) == <<state[a], value[a], events[a], time[a]>>

\* C14 as stated: while an action carries the marker the engine never
\* writes its state, value, events or timers, neither in `update` nor when
\* the action is removed from its context.
C14_Original ==
    [][\A a \in externally_mocked \cap externally_mocked' : Data(a)' = Data(a)]_vars

\* C14: while an action carries the marker `update` never writes its state,
\* value, events, timers or mock; when the action is removed from its
\* context it is reset like any other action.
C14_UpdateSkipsExternallyMocked ==
    [][\A a \in externally_mocked :
          /\ UpdateStep => Data(a)' = Data(a) /\ mock'[a] = mock[a]
          /\ (ResetStep /\ \E c \in Contexts : a \in Range(actions[c]) \ Range(actions'[c]))
               => Data(a)' = <<"None", Zero(value[a].dim),
                               ActionEventsNew(state[a], "None"), NoTime>>]_vars

C14_Witness ==
    /\ phase = "updated"
    /\ 2 \in externally_mocked
    /\ ActiveOwners(2) = {1} /\ actions[1] = <<2>>
    /\ "K1" \notin keys
    /\ state[2] = "Fired" /\ events[2] = {"Start", "Fire"}
    /\ tick_end_state[2] = "Fired"

\* the action a binding belongs to
ActionOf(b) == CHOOSE a \in Actions : \E i \in 1..Len(Bindings[a]) : Bindings[a][i] = b

\* the values read from binding `b` in the tick that starts in this state
ReadsOf(b) ==
    {UpdateResult.trace[p[1]].reads[p[2]].value :
       p \in {q \in (1..Len(UpdateResult.trace)) \X (1..3) :
                 /\ q[2] <= Len(UpdateResult.trace[q[1]].reads)
                 /\ UpdateResult.trace[q[1]].reads[q[2]].binding = b}}

ReadsActive(b) == \E v \in ReadsOf(b) : AsBool(v)

ReadsInactive(b) == \E v \in ReadsOf(b) : ~AsBool(v)

\* C15: a binding of a require_reset action whose input is already actuated
\* when the binding is first evaluated contributes nothing on every tick
\* until the first tick on which it reads the input as inactive, and is
\* evaluated normally from that tick on; so the action is never non-None
\* while its input is still held from before the binding's first evaluation.
C15_HeldSinceBeforeNeverFires ==
    [][UpdateStep =>
         \A b \in ResetBindings :
            /\ (first_activation[b] /\ ReadsActive(b))
                 => state'[ActionOf(b)] = "None" /\ first_activation'[b]
            /\ (first_activation[b] /\ ReadsInactive(b)) => ~first_activation'[b]
            /\ (~first_activation[b] /\ ReadsOf(b) # {})
                 => (state'[ActionOf(b)] # "None" <=> ReadsActive(b))
            /\ held'[b].first = "held" => state'[ActionOf(b)] = "None"]_vars

\* the inputs of the require_reset actions among `as`
HeldResetInputs(as) ==
    {Binding[b].key : b \in {n \in ResetBindings : ActionOf(n) \in as}} \cap keys

\* the values read in a tick, in the order they are read
RECURSIVE AllReads(_, _)
AllReads(t, i) == IF i > Len(t) THEN <<>> ELSE t[i].reads \o AllReads(t, i + 1)

\* C16: when a context is deactivated or an action is removed while an input
\* bound to one of its require_reset actions is held, the input becomes
\* pending; a pending input stays pending and is read as inactive by every
\* binding of every context on every tick in which it is still pressed, and
\* nothing but a tick that finds it released ends this; once it is no longer
\* pending a pressed input is read as active again.
C16_IgnoredUntilReleased ==
    [][/\ DeactivateStep =>
            \A c \in Registered(instances) :
               (active[c] /\ ~active'[c]) => HeldResetInputs(Range(actions[c])) \subseteq pending'
       /\ ResetStep =>
            \A c \in Contexts :
               HeldResetInputs(Range(actions[c]) \ Range(actions'[c])) \subseteq pending'
       /\ ~UpdateStep => pending \subseteq pending'
       /\ UpdateStep =>
            /\ pending' = pending \cap keys
            /\ LET reads == AllReads(UpdateResult.trace, 1)
               IN /\ \A i \in 1..Len(reads) :
                        Binding[reads[i].binding].key \in pending' => ~AsBool(reads[i].value)
                  /\ (reads # <<>> /\ Binding[reads[1].binding].key \in keys \ pending)
                       => AsBool(reads[1].value)]_vars

C16_Witness ==
    /\ phase = "updated"
    /\ "K1" \in keys \cap pending
    /\ ~active[7] /\ active[8]
    /\ Registered(instances) = {7, 8}
    /\ actions[8] = <<17, 12>>
    /\ state[12] = "None" /\ tick_end_state[10] = "Fired"

\* C17 as stated: each time a context becomes active again, a binding of one
\* of its require_reset actions ignores an input held at that moment until
\* the binding has read it as inactive since the re-activation, whether or
\* not this is the first activation of the binding.
C17_Original ==
    [][UpdateStep =>
         \A b \in ResetBindings :
            (held'[b].reactivated = "held" /\ ReadsOf(b) # {})
               => state'[ActionOf(b)] = "None"]_vars

\* C17: when a context becomes active again, a binding of one of its
\* require_reset actions that reads an input held since the re-activation as
\* active ignores it exactly when the binding has never read an inactive
\* value before; a binding that has is evaluated normally and fires at once.
C17_FirstActivationOnly ==
    [][UpdateStep =>
         \A b \in ResetBindings :
            (held[b].reactivated = "held" /\ ReadsActive(b))
               => /\ first_activation[b]
                     => /\ state'[ActionOf(b)] = "None"
                        /\ first_activation'[b]
                        /\ Binding[b].key \in consumed'
                  /\ ~first_activation[b] => state'[ActionOf(b)] = "Fired"]_vars

C17_Witness ==
    /\ phase = "updated"
    /\ active[7] /\ Registered(instances) = {7}
    /\ held[10].reactivated = "held"
    /\ first_activation[10]
    /\ "K1" \in keys \ pending
    /\ "K1" \in consumed
    /\ state[10] = "None" /\ state[11] = "None"

\* a tick in which context `c` is the only one evaluated, from a pressed key
\* that no earlier deactivation made pending
PressedTick(c) ==
    /\ UpdateStep
    /\ Registered(instances) = {c} /\ active[c]
    /\ actions[c] = SpawnActions[c]
    /\ "K1" \in keys \ pending

\* C18 as stated: of two actions of one context bound to the same key, the
\* first with consume_input and the second without, both are Fired in a tick
\* in which the key is pressed.
C18_Original ==
    [][PressedTick(4) => state'[4] = "Fired" /\ state'[5] = "Fired"]_vars

\* C18: of two actions of one context bound to the same key, the first with
\* consume_input and the second without, the first is Fired and consumes the
\* key, and the second is None, in a tick in which the key is pressed.
C18_ConsumeThenPassthrough ==
    [][PressedTick(4) =>
         /\ state'[4] = "Fired"
         /\ "K1" \in consumed'
         /\ state'[5] = "None"]_vars

C18_Witness ==
    /\ phase = "updated"
    /\ Registered(instances) = {4} /\ active[4]
    /\ "K1" \in keys \ pending
    /\ state[4] = "Fired" /\ state[5] = "None"
    /\ consumed = {"K1"}

\* the contexts whose first action has consume_input = false
PassthroughFirst == {c \in ConsumeContexts : ~Settings[SpawnActions[c][1]].consume_input}

\* the binding of action `a` still waits for its first inactive reading
Latched(a) == Settings[a].require_reset /\ first_activation[Bindings[a][1]]

MarkedBy(t, i) == t[i].consumed \ (IF i = 1 THEN {} ELSE t[i - 1].consumed)

C21_ConsumedClearedEachTick ==
    [][UpdateStep =>
         LET t == UpdateResult.trace
             reads == AllReads(t, 1)
         IN /\ (reads # <<>> /\ Binding[reads[1].binding].key \in keys \ pending)
                 => AsBool(reads[1].value)
            /\ (t # <<>> /\ t[1].path # "input") => t[1].consumed = {}
            /\ (t = <<>>) => consumed' = {}]_vars

C21_Witness ==
    /\ phase = "updated"
    /\ "K1" \in keys
    /\ tick_end_state[1] = "Fired"
    /\ time[1].elapsed_secs = 1
    /\ state[1] = "Fired"
    /\ consumed = {"K1"}

\* the largest number of modifier keys over the bindings of action `a`
MaxMods(a) ==
    LET counts == {Cardinality(Binding[Bindings[a][i]].mod_keys) : i \in 1..Len(Bindings[a])}
    IN CHOOSE n \in counts : \A m \in counts : m <= n

\* position of action `a` among the actions its context was spawned with
SpawnIndex(a) ==
    LET c == CHOOSE d \in Contexts : a \in Range(SpawnActions[d])
    IN CHOOSE i \in 1..Len(SpawnActions[c]) : SpawnActions[c][i] = a

\* C22: within a context, actions are evaluated in order of decreasing
\* maximum modifier-key count over their bindings, actions with equal counts
\* in spawn order; so with Ctrl and K pressed the consuming action bound to
\* Ctrl+K, spawned second, is Fired and the actions bound to plain K are
\* None, while with K alone the first action bound to plain K is Fired.
C22_ModifierCountOrder ==
    [][(UpdateStep /\ Registered(instances) = {10}) =>
         LET t == UpdateResult.trace
         IN /\ \A i \in 1..Len(t) : \A j \in (i + 1)..Len(t) :
                  /\ MaxMods(t[i].action) >= MaxMods(t[j].action)
                  /\ MaxMods(t[i].action) = MaxMods(t[j].action)
                       => SpawnIndex(t[i].action) < SpawnIndex(t[j].action)
            /\ (active[10] /\ keys = {"K1", "Ctrl"})
                 => state'[19] = "Fired" /\ state'[18] = "None" /\ state'[20] = "None"
            /\ (active[10] /\ keys = {"K1"})
                 => state'[19] = "None" /\ state'[18] = "Fired" /\ state'[20] = "None"]_vars

C22_Witness ==
    /\ phase = "updated"
    /\ Registered(instances) = {10} /\ active[10]
    /\ keys = {"K1", "Ctrl"}
    /\ actions[10] = <<19, 18, 20>>
    /\ state[19] = "Fired" /\ state[18] = "None"
    /\ consumed = {"K1", "Ctrl"}

\* a context instance is registered in this step
RegisterStep(c) == c \notin Registered(instances) /\ c \in Registered(instances')

\* position of the instance of context `c` in the list `insts`
Position(insts, c) == CHOOSE i \in 1..Len(insts) : insts[i].entity = c

\* the instances registered before this step with the priority that `c` gets
EqualTo(c) ==
    {d \in Registered(instances) :
        instances'[Position(instances', d)].priority
          = instances'[Position(instances', c)].priority}

\* C23 as stated: context instances of equal priority are evaluated in the
\* order in which they were registered, the earlier-registered first.
C23_Original ==
    [][\A c \in Contexts :
          RegisterStep(c) =>
             \A d \in EqualTo(c) : Position(instances', d) < Position(instances', c)]_vars

\* C23: a context instance registered with the priority of instances that
\* are already registered is placed immediately before one of them, the
\* others keeping their order: it is evaluated before at least one
\* earlier-registered instance of its priority, and before the only one when
\* there is exactly one.
C23_NewBeforeEqual ==
    [][\A c \in Contexts :
          RegisterStep(c) =>
             /\ instances = RemoveAt(instances', Position(instances', c))
             /\ EqualTo(c) # {} =>
                   /\ Position(instances', c) < Len(instances')
                   /\ instances'[Position(instances', c) + 1].entity \in EqualTo(c)
             /\ \A d \in EqualTo(c) :
                   EqualTo(c) = {d} => Position(instances', c) < Position(instances', d)]_vars

C23_Witness ==
    /\ Len(instances) = 2
    /\ instances[1].priority = instances[2].priority
    /\ instances[1].entity = 2 /\ instances[2].entity = 1
    /\ state[1] = "None" /\ state[3] = "Fired"
    /\ phase = "updated"

\* C24: with equal priorities a context registered later is evaluated before
\* every context registered earlier, for any number of registered contexts:
\* a newly registered instance becomes the first of the list.
C24_ReverseSpawnOrder ==
    [][\A c \in Contexts :
          (RegisterStep(c) /\ \A i \in 1..Len(instances') : instances'[i].priority = 0)
             => instances'[1].entity = c]_vars

\* the notifications of event `kind` for action `a` since the last update
Notifications(a, kind) ==
    {i \in 1..Len(sink) : sink[i].action = a /\ sink[i].event = kind}

\* C25: between the start of one update and the start of the next, the sink
\* receives at most one notification of each event kind for each action,
\* also when the action is reset in that tick because it left its context.
C25_OncePerKindPerTick ==
    \A a \in Actions : \A kind \in Range(EventOrder) :
       Cardinality(Notifications(a, kind)) <= 1

C25_Witness ==
    /\ phase = "idle"
    /\ 1 \notin Range(actions[1])
    /\ Notifications(1, "Start") # {}
    /\ Notifications(1, "Fire") # {}
    /\ Notifications(1, "Complete") # {}
    /\ state[1] = "None"

\* C26 as stated: after a tick's update an action whose resulting state is
\* None has zero elapsed and fired time; when the resulting state is Ongoing
\* or Fired the elapsed time has grown by the tick's delta, and the fired
\* time grows only when the resulting state is Fired.
C26_Original ==
    [][UpdateStep =>
         \A a \in Evaluated :
            /\ state'[a] = "None" => time'[a] = NoTime
            /\ state'[a] # "None" => time'[a].elapsed_secs = time[a].elapsed_secs + Delta
            /\ time'[a].fired_secs > time[a].fired_secs => state'[a] = "Fired"]_vars

\* C26: after a tick's update the timers of an action follow the state the
\* action had before that update: both are zero when it was None, the
\* elapsed time has grown by the tick's delta when it was Ongoing or Fired,
\* and the fired time has grown by the delta when it was Fired and is zero
\* when it was Ongoing.
C26_TimeOfPreviousState ==
    [][UpdateStep =>
         \A a \in Evaluated :
            /\ state[a] = "None" => time'[a] = NoTime
            /\ state[a] # "None" => time'[a].elapsed_secs = time[a].elapsed_secs + Delta
            /\ state[a] = "Ongoing" => time'[a].fired_secs = 0
            /\ state[a] = "Fired" => time'[a].fired_secs = time[a].fired_secs + Delta]_vars

C26_Witness ==
    /\ phase = "updated"
    /\ 1 \in Evaluated
    /\ tick_end_state[1] = "Fired"
    /\ state[1] = "None"
    /\ time[1] = [elapsed_secs |-> Delta, fired_secs |-> Delta]

C28_HoldOngoingThenFired ==
    (condition.kind = "Hold" /\ ~condition.one_shot /\ history.count > 0)
    => /\ history.actuated
          => history.result = (IF history.held_time < condition.timer.duration
                               THEN "Ongoing" ELSE "Fired")
       /\ (~history.actuated /\ history.preceded
           /\ history.ended_held < condition.timer.duration)
          => (history.result = "None" /\ history.ended_fired = 0)

\* a press that was Ongoing on an earlier evaluation is Fired
C28_Witness ==
    /\ condition.kind = "Hold" /\ ~condition.one_shot
    /\ history.actuated /\ history.preceded
    /\ history.result = "Fired" /\ history.fired = 1

\* C29: HoldAndRelease(d) returns Fired only on an evaluation that finds the
\* input released and ends an actuation that lasted at least d (the time from
\* the evaluation before the first actuated one to the releasing one); it
\* returns None when the input is released earlier; and it never returns
\* Fired on an evaluation that was not preceded by an actuated one.
C29_FiredOnlyOnRelease ==
    (condition.kind = "HoldAndRelease" /\ history.count > 0)
    => /\ history.result = "Fired"
          => (~history.actuated /\ history.preceded
              /\ history.ended_time >= condition.timer.duration)
       /\ (~history.actuated /\ history.preceded
           /\ history.ended_time < condition.timer.duration)
          => history.result = "None"
       /\ ~history.preceded => history.result # "Fired"


\* C30: for a Pulse with trigger_limit L > 0 at most L evaluations of one
\* continuous actuation return Fired; once L have, every further evaluation
\* with the input still actuated returns None; a release resets the count,
\* so that the count starts from zero again in the next actuation.
C30_TriggerLimit ==
    (condition.kind = "Pulse" /\ condition.trigger_limit > 0 /\ history.count > 0)
    => /\ history.fired <= condition.trigger_limit
       /\ (history.actuated /\ history.fired = condition.trigger_limit
           /\ history.result # "Fired")
          => history.result = "None"
       /\ history.actuated => condition.trigger_count = history.fired
       /\ ~history.actuated => condition.trigger_count = 0

\* after a release the next actuation has fired L times again
C30_Witness ==
    /\ condition.kind = "Pulse" /\ condition.trigger_limit > 0
    /\ history.runs = 2 /\ history.actuated
    /\ history.fired = condition.trigger_limit


\* the pulses that the timer has produced in the current actuation: every
\* Fired of it except the one that trigger_on_start gives its first evaluation
TimerPulses ==
    history.fired - (IF condition.trigger_on_start THEN 1 ELSE 0)

\* C31: for a Pulse with an initial delay, within one continuous actuation
\* the timer waits for the initial delay until it has produced its first
\* pulse and for the interval from then on, whether or not the condition
\* also fires on the start of the actuation.
C31_InitialDelayOnce ==
    (condition.kind = "Pulse" /\ condition.initial_delay # <<>> /\ history.actuated)
    => condition.timer.duration = (IF TimerPulses <= 0
                                   THEN condition.initial_delay[1]
                                   ELSE condition.interval)


\* the parts of C32 that do not depend on how the cooldown is counted:
\* Fired only on a rising edge of the input, the first press is Fired, and
\* every other evaluation returns None
CooldownEdge ==
    /\ history.result \in {"Fired", "None"}
    /\ history.result = "Fired" => (history.actuated /\ ~history.preceded)
    /\ (history.actuated /\ ~history.preceded /\ history.presses = 1)
       => history.result = "Fired"

\* C32 as stated: Cooldown(d) returns Fired only on a rising actuation edge
\* and, except for the first press, only if the time for which the input was
\* released since the previous Fired adds up to at least d; every other
\* evaluation returns None.
C32_Original ==
    (condition.kind = "Cooldown" /\ condition.only_when_released /\ history.count > 0)
    => /\ CooldownEdge
       /\ (history.result = "Fired" /\ history.fires > 1)
          => history.fired_released >= condition.timer.duration

\* C32 amended: Cooldown(d) returns Fired only on a rising actuation edge
\* and, except for the first press, only if the timer has reached d since
\* the previous Fired, where the timer advances on every evaluation, with an
\* actuated input or not, except those at which it stands at zero and the
\* input was actuated on the evaluation before; every other evaluation
\* returns None.
C32_CooldownFromRelease ==
    (condition.kind = "Cooldown" /\ condition.only_when_released /\ history.count > 0)
    => /\ CooldownEdge
       /\ (history.result = "Fired" /\ history.fires > 1)
          => history.fired_cooled >= condition.timer.duration

\* a second press is Fired after the cooldown ran while the input was pressed
C32_Witness ==
    /\ condition.kind = "Cooldown" /\ condition.only_when_released
    /\ history.result = "Fired" /\ history.fires = 2
    /\ history.fired_released < condition.timer.duration


\* the states of the actions a Chord lists, in the world of its evaluation
ListedStates == {history.world[condition.actions[i]].state :
                   i \in 1..Len(condition.actions)}

\* the greatest of a set of states, None for the empty set
Greatest(S) ==
    IF "Fired" \in S THEN "Fired" ELSE IF "Ongoing" \in S THEN "Ongoing" ELSE "None"

AllListedExist == \A i \in 1..Len(condition.actions) :
                    condition.actions[i] \in DOMAIN history.world

ChordResultAsStated ==
    /\ history.result = "Fired" <=> ListedStates \subseteq {"Fired"}
    /\ ~(ListedStates \subseteq {"Fired"})
       => history.result = MinState(Greatest(ListedStates), "Ongoing")
    /\ ~(ListedStates \subseteq {"Fired"})
       => (history.result = "None" <=> ListedStates \subseteq {"None"})

MissingAsNone(world) ==
    [e \in RefEntities |-> IF e \in DOMAIN world THEN world[e]
                           ELSE [state |-> "None"]]

\* C34 (Chord): a Chord that lists an entity which is not an action returns
\* what it would return if that entity were an action with the state None.
C34_MissingChordActionAsNone ==
    (condition.kind = "Chord" /\ history.count > 0)
    => history.result = ChordEvaluate(condition, MissingAsNone(history.world))


\* a Combo with steps has been evaluated
ComboEvaluated ==
    condition.kind = "Combo" /\ condition.steps # <<>> /\ history.count > 0

\* the step the combo was at before its last evaluation
StepBefore == condition.steps[history.index + 1]

\* the last evaluation came when the time since the match of the step before
\* had reached the timeout of the step the combo was at
TimedOut == history.index > 0 /\ history.waited >= StepBefore.timeout

\* the last evaluation saw no cancel event and no event out of order, the
\* action of the step existed and the step was within its timeout
InOrder ==
    /\ ~history.cancel /\ ~history.disorder /\ ~history.missing
    /\ ~TimedOut

\* C35: an evaluation of a Combo that sees no cancel event, no step event out
\* of order and no timeout returns Fired exactly if it sees the events of
\* the last step while the combo is at it, and the combo is at step 0
\* afterwards; it moves the combo one step on and returns Ongoing if it sees
\* the events of an earlier step; and it returns Ongoing, the combo staying
\* at its step, if the first step has been matched and the events of the
\* step are not seen.
C35_ComboInOrder ==
    (ComboEvaluated /\ InOrder)
    => /\ history.result = "Fired"
          <=> (history.seen /\ history.index + 1 = Len(condition.steps))
       /\ history.result = "Fired" => condition.step_index = 0
       /\ (history.seen /\ history.index + 1 < Len(condition.steps))
          => (history.result = "Ongoing" /\ condition.step_index = history.index + 1)
       /\ ~history.seen
          => /\ condition.step_index = history.index
             /\ history.index > 0 => history.result = "Ongoing"

\* the last step of a combo of two steps is matched in time
C35_Witness ==
    /\ ComboEvaluated /\ InOrder
    /\ Len(condition.steps) = 2 /\ history.index = 1 /\ history.waited > 0
    /\ history.result = "Fired"

\* C36 as stated: after an evaluation that sees an event of a cancel action
\* (other than the action of the current step) or an event of a step whose
\* action is not the action of the current step, the combo is at step 0.
C36_Original ==
    (ComboEvaluated /\ (history.cancel \/ history.disorder))
    => condition.step_index = 0

\* C36 amended: such an evaluation resets the combo to step 0 before it
\* looks at the steps: afterwards the combo is at step 0, unless the
\* evaluation also sees the events of the first step, which it then matches
\* (a combo of more than one step is at step 1 and the result is Ongoing).
C36_CancelledRestarts ==
    (ComboEvaluated /\ (history.cancel \/ history.disorder))
    => IF history.first /\ Len(condition.steps) > 1
       THEN condition.step_index = 1 /\ history.result = "Ongoing"
       ELSE condition.step_index = 0

\* a combo past its first step is cancelled and matches its first step anew
C36_Witness ==
    /\ ComboEvaluated /\ history.cancel /\ history.index = 1
    /\ history.first /\ condition.step_index = 1

\* C37: an evaluation that comes when the time accumulated since the match
\* of step k-1 has reached the timeout of step k does not accept step k, even
\* if it sees its events: the combo restarts from step 0 (where the same
\* evaluation may match the first step).  The first step is matched whenever
\* its events are seen without a cancel event, whatever the clock says.
C37_StepTimeout ==
    ComboEvaluated
    => /\ TimedOut
          => /\ history.result # "Fired"
             /\ condition.step_index = (IF history.first THEN 1 ELSE 0)
       /\ (history.index = 0 /\ history.seen /\ ~history.cancel /\ ~history.disorder)
          => IF Len(condition.steps) = 1 THEN history.result = "Fired"
             ELSE condition.step_index = 1

\* the events of the second step are seen when its timeout has passed
C37_Witness ==
    /\ ComboEvaluated /\ TimedOut /\ history.seen
    /\ ~history.cancel /\ ~history.disorder
    /\ history.index = 1 /\ Len(condition.steps) = 2
    /\ condition.step_index = 0



\* ------------------------------------------------------------------- C40
\* C40: an enabled mock whose span is Updates(0) is active for zero
\* evaluations: the update that finds it on an action of an active context
\* does not apply it but evaluates the action from its bindings.
C40_ZeroSpanNotApplied ==
    [][update =>
         LET trace == UpdateResult.trace
         IN \A i \in 1..Len(trace) :
              LET a == trace[i].action
              IN (mock[a].enabled /\ mock[a].span = Updates(0)
                    /\ trace[i].path # "inactive")
                 => /\ trace[i].path = "input"
                    /\ mock'[a] = mock[a]
       ]_vars


\* ------------------------------------------------------------------- C38
\* the bindings of the actions in `as`
BindingsOf(as) ==
    UNION {{Bindings[as[j]][n] : n \in 1..Len(Bindings[as[j]])} : j \in 1..Len(as)}

\* C38: a tick leaves the evaluation memory of the actions of an inactive
\* context as it was: their mocks (span and enabled flag), the state of
\* their condition components and the first-activation latches of their
\* bindings.
C38_InactiveTickKeepsMemory ==
    [][update =>
         \A c \in Inactive :
           /\ \A j \in 1..Len(actions[c]) :
                LET a == actions[c][j]
                IN /\ mock'[a] = mock[a]
                   /\ a \in DOMAIN condition.of => condition'.of[a] = condition.of[a]
           /\ \A b \in BindingsOf(actions[c]) :
                first_activation'[b] = first_activation[b]
       ]_vars

\* A tick has just run with both contexts inactive: action 29 has an enabled
\* mock with a counted span and a Hold timer that has run for a while, and
\* the binding of the require_reset action 10 still has its latch although
\* its key is not pressed.
C38_Witness ==
    /\ phase = "updated"
    /\ Inactive = InactiveContexts
    /\ mock[29].enabled /\ mock[29].span.kind = "Updates"
    /\ condition.of[29].timer.elapsed > 0
    /\ first_activation[10] /\ keys = {}


\* ------------------------------------------------------------------- C39
\* the place of action `a` in the schedule of the tick that has led to the
\* primed state: the index of its context among the instances and its index
\* in the sorted action list of the context; <<>> if it is not evaluated
SchedulePlace(a) ==
    LET places == {<<i, j>> \in (1..Len(instances)) \X (1..3) :
                     /\ j <= Len(actions'[instances[i].entity])
                     /\ actions'[instances[i].entity][j] = a}
    IN IF places = {} THEN <<>> ELSE CHOOSE p \in places : TRUE

EvaluatedEarlier(x, y) ==
    LET px == SchedulePlace(x)
        py == SchedulePlace(y)
    IN /\ px # <<>> /\ py # <<>>
       /\ \/ px[1] < py[1]
          \/ px[1] = py[1] /\ px[2] < py[2]

\* what the claim lets the condition of action y observe: the result of this
\* tick for the actions evaluated before y, the result of the previous tick
\* for the others
ObservedAsStated(y) ==
    [x \in Actions |->
       [state |-> IF EvaluatedEarlier(x, y) THEN state'[x] ELSE tick_end_state[x]]]

\* the chord actions that a tick evaluates from their condition
ChordActions == {a \in DOMAIN condition.of : condition.of[a].kind = "Chord"}

EvaluatedFromInput(y) ==
    \E i \in 1..Len(instances) :
      /\ active[instances[i].entity]
      /\ \E j \in 1..Len(actions[instances[i].entity]) :
           actions[instances[i].entity][j] = y
      /\ ~mock[y].enabled /\ y \notin externally_mocked

\* C39: the Chord of an action observes, for each action it names, the
\* result of the current tick if that action is evaluated earlier in the
\* schedule order (in a context earlier in the priority order, or earlier in
\* the sorted action list of the same context), and the result of the
\* previous tick otherwise: the state of the chord action after the tick is
\* the Chord's result over exactly these states.
C39_ObservesEarlierActions ==
    [][update =>
         \A y \in ChordActions :
           EvaluatedFromInput(y)
             => state'[y] = ChordEvaluate(condition.of[y], ObservedAsStated(y))
       ]_vars

\* A tick has just run in which the key went down, with context 12 ahead of
\* context 11: the actions 26 and 28 went from None to Fired; the chord of
\* action 25 saw the new state of 28 and the old one of 26, which comes
\* after it, so it is Ongoing; the chord of action 27 saw the new state of
\* 26, which comes before it, so it is Fired.
C39_Witness ==
    /\ phase = "updated"
    /\ Len(instances) = 2 /\ instances[1].entity = 12
    /\ active[11] /\ active[12]
    /\ tick_end_state[26] = "None" /\ tick_end_state[28] = "None"
    /\ state[26] = "Fired" /\ state[28] = "Fired"
    /\ state[25] = "Ongoing"
    /\ state[27] = "Fired"

====
